---- MODULE Spec2Model ----
(***************************************************************************)
(* Verification model of the symbolic constraint DAG and of the CPU        *)
(* quotient evaluator of stark-backend.                                    *)
(*                                                                         *)
(* Conventions.                                                            *)
(*  - Vec indices of the source are 0-based; sequences here are 1-based,   *)
(*    so node index i of the source is position i+1 of `nodes`.  Row and   *)
(*    column numbers of matrices and domains keep the 0-based numbering    *)
(*    of the source (they are arguments of functions, not positions).      *)
(*  - A record field that does not exist for a variant holds 0 / NoVar.    *)
(*  - The StarkGenericConfig is instantiated with the prime field F_P and  *)
(*    its quadratic extension F_P[X]/(X^2 - NR).                           *)
(***************************************************************************)
EXTENDS Integers, Sequences, FiniteSets, TLC

VARIABLES
    phase,          \* position of the driver of the specification in use
    arena,          \* Arc-allocated SymbolicExpression values; index = reference
    exprs,          \* the expression roots handed to build_symbolic_expr_dag
    dag,            \* SymbolicExpressionDag {nodes, constraint_idx}
    expr_to_idx,    \* the builder's cache when the build returned
    rebuilt,        \* result of to_symbolic_expressions: [arena, exprs]
    folder,         \* GenericVerifierConstraintFolder after eval_constraints
    acc,            \* what ProverConstraintEvaluator::accumulate returned
    pe,             \* operands and result of one PackedExpr operation
    qin,            \* arguments of compute_single_rap_quotient_values
    chunk_idx,      \* the chunk the map over qc_domains is at
    column,         \* `chunk`: the column of the chunk being filled
    tasks,          \* closures spawned by parallelize_chunks for this chunk
    quotient_chunks,\* the chunks finished so far
    fib,            \* the Fibonacci trace being checked row by row
    airs,           \* per AIR of the proof: log trace height, quotient degree
    has_phase,      \* whether the RAP phase produced a challenge round
    events,         \* challenger and PCS calls made so far, in program order
    air_idx,        \* the AIR QuotientCommitter::quotient_values is at
    quotient_data,  \* QuotientData.inner collected so far
    pcs_commits,    \* arguments of the pcs.commit calls made by the committer
    quotient_pcs,   \* PcsData returned by QuotientCommitter::commit
    common_main_pcs_data, \* PcsData of the commitment to the common main traces
    prover_data_after,    \* ProverDataAfterRapPhases returned by partially_prove
    extended_views,       \* the RapViews eval_and_commit_quotient prepares
    ser             \* a DAG, its byte encoding and what was decoded from it

dagVars == <<arena, exprs, dag, expr_to_idx, rebuilt, folder>>
evalVars == <<acc>>
packedVars == <<pe>>
quotientVars == <<qin, chunk_idx, column, tasks, quotient_chunks>>
fibVars == <<fib>>
serdeVars == <<ser>>
viewVars == <<common_main_pcs_data, prover_data_after, extended_views>>
proveVars == <<airs, has_phase, events, air_idx, quotient_data, pcs_commits,
               quotient_pcs, viewVars>>
notDagVars == <<evalVars, packedVars, quotientVars, fibVars, proveVars, serdeVars>>
notEvalVars == <<arena, exprs, expr_to_idx, rebuilt, folder, packedVars,
                 quotientVars, fibVars, proveVars, serdeVars>>
notPackedVars == <<dagVars, evalVars, quotientVars, fibVars, proveVars, serdeVars>>
notQuotientVars == <<dagVars, evalVars, packedVars, fibVars, proveVars, serdeVars>>
notFibVars == <<dagVars, evalVars, packedVars, quotientVars, proveVars,
               serdeVars>>
notProveVars == <<dagVars, evalVars, packedVars, quotientVars, fibVars,
                 serdeVars>>
notSerdeVars == <<dagVars, evalVars, packedVars, quotientVars, fibVars,
                 proveVars>>
vars == <<phase, dagVars, evalVars, packedVars, quotientVars, fibVars,
          proveVars, serdeVars>>

(***************************************************************************)
(* Bounds of the model.                                                    *)
(***************************************************************************)
MaxArena == 3       \* Arc allocations made by the caller before a build
MaxRoots == 2       \* expression roots handed to one build

(***************************************************************************)
(* Field arithmetic: Val = F_P, Challenge = F_P[X]/(X^2 - NR).             *)
(***************************************************************************)
P == 5
NR == 2
D == 2

Val == 0 .. (P - 1)
Challenge == Val \X Val

FAdd(x, y) == (x + y) % P
FSub(x, y) == (x + P - y) % P
FMul(x, y) == (x * y) % P
FNeg(x) == (P - x) % P

EFZero == <<0, 0>>
EFOne == <<1, 0>>
EFFromBase(x) == <<x, 0>>
EFAdd(a, b) == <<FAdd(a[1], b[1]), FAdd(a[2], b[2])>>
EFSub(a, b) == <<FSub(a[1], b[1]), FSub(a[2], b[2])>>
EFNeg(a) == <<FNeg(a[1]), FNeg(a[2])>>
EFMul(a, b) ==
    <<FAdd(FMul(a[1], b[1]), FMul(NR, FMul(a[2], b[2]))),
      FAdd(FMul(a[1], b[2]), FMul(a[2], b[1]))>>

RECURSIVE EFPow(_, _)
EFPow(a, n) == IF n = 0 THEN EFOne ELSE EFMul(a, EFPow(a, n - 1))

Max(a, b) == IF a >= b THEN a ELSE b
Min(a, b) == IF a <= b THEN a ELSE b

(***************************************************************************)
(* Symbolic variables, expressions and DAG nodes.                          *)
(***************************************************************************)
NoVar == [entry |-> "None", part_index |-> 0, offset |-> 0, index |-> 0]

SymbolicVariable(entry, part_index, offset, index) ==
    [entry |-> entry, part_index |-> part_index, offset |-> offset, index |-> index]

LeafTags == {"Variable", "IsFirstRow", "IsLastRow", "IsTransition", "Constant"}
BinaryTags == {"Add", "Sub", "Mul"}
InternalTags == BinaryTags \cup {"Neg"}

\* A SymbolicExpression value.  x and y are Arc references (arena indices).
Expr(tag, var, c, x, y, deg) ==
    [tag |-> tag, var |-> var, c |-> c, x |-> x, y |-> y, degree_multiple |-> deg]

\* A SymbolicExpressionNode.  Neg keeps its `idx` in left_idx.
Node(tag, var, c, l, r, deg) ==
    [tag |-> tag, var |-> var, c |-> c, left_idx |-> l, right_idx |-> r,
     degree_multiple |-> deg]

EmptyDag == [nodes |-> <<>>, constraint_idx |-> <<>>]

(***************************************************************************)
(* Construction of expressions by the caller (operator overloads of        *)
(* SymbolicExpression).                                                    *)
(***************************************************************************)
\* degree_multiple() of a leaf.
LeafDegree(tag, var) ==
    CASE tag = "Variable" ->
            IF var.entry \in {"Preprocessed", "Main", "Permutation"} THEN 1 ELSE 0
      [] tag \in {"IsFirstRow", "IsLastRow"} -> 1
      [] OTHER -> 0

\* degree_multiple() of any expression: stored for internal nodes.
ExprDegree(e) ==
    IF e.tag \in LeafTags THEN LeafDegree(e.tag, e.var) ELSE e.degree_multiple

\* degree given by the operator overloads to a new internal expression.
OpDegree(tag, dx, dy) ==
    CASE tag \in {"Add", "Sub"} -> Max(dx, dy)
      [] tag = "Mul" -> dx + dy
      [] OTHER -> dx

LeafExpr(tag, var, c) == Expr(tag, var, c, 0, 0, 0)

(***************************************************************************)
(* build_symbolic_expr_dag.                                                *)
(***************************************************************************)
\* Variant: the key is the whole tree below the expression, so that
\* value-equal expressions share a key wherever they were allocated.
RECURSIVE ExprKeyByValue(_)
ExprKeyByValue(e) ==
    [tag |-> e.tag, var |-> e.var, c |-> e.c,
     degree_multiple |-> e.degree_multiple,
     kids |-> IF e.tag \in LeafTags THEN <<>>
              ELSE IF e.tag = "Neg" THEN <<ExprKeyByValue(arena[e.x])>>
              ELSE <<ExprKeyByValue(arena[e.x]), ExprKeyByValue(arena[e.y])>>]

\* What the FxHashMap<&SymbolicExpression, usize> compares: a leaf by its
\* value, an internal expression by its variant, the references it holds and
\* its degree.  The address of the expression itself plays no part.
ExprKey(e) == e

\* Variant: degree_multiple is not copied from the expression.
ExprToNodeZeroDegree(e, l, r) ==
    CASE e.tag \in LeafTags -> Node(e.tag, e.var, e.c, 0, 0, 0)
      [] e.tag = "Neg" -> Node(e.tag, NoVar, 0, l, 0, 0)
      [] OTHER -> Node(e.tag, NoVar, 0, l, r, 0)

\* The SymbolicExpressionNode of an expression whose children have indices l, r.
ExprToNode(e, l, r) ==
    CASE e.tag \in LeafTags -> Node(e.tag, e.var, e.c, 0, 0, 0)
      [] e.tag = "Neg" -> Node("Neg", NoVar, 0, l, 0, e.degree_multiple)
      [] OTHER -> Node(e.tag, NoVar, 0, l, r, e.degree_multiple)

PushNodeOffByOne(st, key, node) ==
    LET idx == Len(st.nodes) + 2
    IN  [idx |-> idx, nodes |-> Append(st.nodes, node),
         expr_to_idx |-> (key :> idx) @@ st.expr_to_idx]

PushNodeNoInsert(st, key, node) ==
    LET idx == Len(st.nodes) + 1
    IN  [idx |-> idx, nodes |-> Append(st.nodes, node),
         expr_to_idx |-> st.expr_to_idx]

\* let idx = nodes.len(); nodes.push(node); expr_to_idx.insert(expr, idx); idx
PushNode(st, key, node) ==
    LET idx == Len(st.nodes) + 1
    IN  [idx |-> idx, nodes |-> Append(st.nodes, node),
         expr_to_idx |-> (key :> idx) @@ st.expr_to_idx]

\* Variant: a constant added on the left is folded away.
RECURSIVE TopologicalSortFolding(_, _, _)
TopologicalSortFolding(ar, a, st) ==
    LET e == ar[a]
        key == ExprKey(e)
    IN  IF e.tag = "Add" /\ ar[e.x].tag = "Constant"
        THEN TopologicalSortFolding(ar, e.y, st)
        ELSE IF key \in DOMAIN st.expr_to_idx
        THEN [st EXCEPT !.idx = st.expr_to_idx[key]]
        ELSE LET s1 == IF e.tag \in InternalTags
                       THEN TopologicalSortFolding(ar, e.x, st) ELSE st
                 s2 == IF e.tag \in BinaryTags
                       THEN TopologicalSortFolding(ar, e.y, s1) ELSE s1
             IN  PushNode(s2, key, ExprToNode(e, s1.idx, s2.idx))

\* st = [idx, nodes, expr_to_idx]; the result's idx is the returned node index.
RECURSIVE topological_sort_symbolic_expr(_, _, _)
topological_sort_symbolic_expr(ar, a, st) ==
    LET e == ar[a]
        key == ExprKey(e)
    IN  IF key \in DOMAIN st.expr_to_idx
        THEN [st EXCEPT !.idx = st.expr_to_idx[key]]
        ELSE LET s1 == IF e.tag \in InternalTags
                       THEN topological_sort_symbolic_expr(ar, e.x, st) ELSE st
                 s2 == IF e.tag \in BinaryTags
                       THEN topological_sort_symbolic_expr(ar, e.y, s1) ELSE s1
             IN  PushNode(s2, key, ExprToNode(e, s1.idx, s2.idx))

EmptyBuild == [idx |-> 0, nodes |-> <<>>, expr_to_idx |-> <<>>]

\* Folds topological_sort_symbolic_expr over the first n roots, in order.
RECURSIVE BuildRoots(_, _, _)
BuildRoots(ar, roots, n) ==
    IF n = 0 THEN [st |-> EmptyBuild, constraint_idx |-> <<>>]
    ELSE LET prev == BuildRoots(ar, roots, n - 1)
             s == topological_sort_symbolic_expr(ar, roots[n], prev.st)
         IN  [st |-> s, constraint_idx |-> Append(prev.constraint_idx, s.idx)]

build_symbolic_expr_dag(ar, roots) ==
    LET b == BuildRoots(ar, roots, Len(roots))
    IN  [nodes |-> b.st.nodes, constraint_idx |-> b.constraint_idx,
         expr_to_idx |-> b.st.expr_to_idx]

(***************************************************************************)
(* SymbolicExpressionDag::to_symbolic_expressions.                         *)
(***************************************************************************)
NodeToExprSwapped(node) ==
    IF node.tag \in LeafTags
    THEN Expr(node.tag, node.var, node.c, 0, 0, 0)
    ELSE IF node.tag = "Sub"
         THEN Expr(node.tag, NoVar, 0, node.right_idx, node.left_idx,
                   node.degree_multiple)
         ELSE Expr(node.tag, NoVar, 0, node.left_idx, node.right_idx,
                   node.degree_multiple)

\* One arm of the match: the expression of a node; exprs[i] is the Arc made
\* for node i, so a child index is the child's reference.
NodeToExpr(node) ==
    IF node.tag \in LeafTags
    THEN Expr(node.tag, node.var, node.c, 0, 0, 0)
    ELSE Expr(node.tag, NoVar, 0, node.left_idx, node.right_idx,
              node.degree_multiple)

\* The children of node i were pushed to `exprs` before node i is reached.
RebuildInRange(d) ==
    /\ \A i \in 1 .. Len(d.nodes) :
          LET n == d.nodes[i]
          IN  /\ n.tag \in InternalTags => n.left_idx \in 1 .. (i - 1)
              /\ n.tag \in BinaryTags => n.right_idx \in 1 .. (i - 1)
    /\ \A k \in 1 .. Len(d.constraint_idx) :
          d.constraint_idx[k] \in 1 .. Len(d.nodes)

\* Variant: every child slot gets an Arc of its own (a deep copy of the
\* child) instead of a clone of the Arc made for the child's node.
ToSymbolicExpressionsUnshared(d) ==
    IF ~RebuildInRange(d)
    THEN [panicked |-> TRUE, arena |-> <<>>, exprs |-> <<>>]
    ELSE LET n == Len(d.nodes)
             Copy(i) ==
                 LET e == NodeToExpr(d.nodes[i])
                 IN  IF e.tag \in LeafTags THEN e
                     ELSE [e EXCEPT !.x = n + e.x,
                                    !.y = IF e.tag = "Neg" THEN 0 ELSE n + e.y]
         IN  [panicked |-> FALSE,
              arena |-> [i \in 1 .. 2 * n |->
                            IF i <= n THEN Copy(i) ELSE Copy(i - n)],
              exprs |-> d.constraint_idx]

\* [panicked, arena, exprs]: the Arcs made, one per node, and the returned
\* roots (each a clone of the expression behind the named Arc).
to_symbolic_expressions(d) ==
    IF ~RebuildInRange(d)
    THEN [panicked |-> TRUE, arena |-> <<>>, exprs |-> <<>>]
    ELSE [panicked |-> FALSE,
          arena |-> [i \in 1 .. Len(d.nodes) |-> NodeToExpr(d.nodes[i])],
          exprs |-> d.constraint_idx]

\* The value of the expression behind reference a, as a tree (what the
\* derived PartialEq of SymbolicExpression compares).
RECURSIVE ExprTree(_, _)
ExprTree(ar, a) ==
    LET e == ar[a]
    IN  [tag |-> e.tag, var |-> e.var, c |-> e.c,
         degree_multiple |-> e.degree_multiple,
         kids |-> IF e.tag \in LeafTags THEN <<>>
                  ELSE IF e.tag = "Neg" THEN <<ExprTree(ar, e.x)>>
                  ELSE <<ExprTree(ar, e.x), ExprTree(ar, e.y)>>]

(***************************************************************************)
(* GenericVerifierConstraintFolder (Var = Expr = Challenge, PubVar = Val). *)
(***************************************************************************)
\* ViewPair::get(offset, index) of the verifier's views.
ViewGet(view, offset, index) ==
    IF offset = 0 THEN view.local[index + 1] ELSE view.next[index + 1]

VerifierEvalVar(f, var) ==
    CASE var.entry = "Preprocessed" -> ViewGet(f.preprocessed, var.offset, var.index)
      [] var.entry = "Main" ->
            ViewGet(f.partitioned_main[var.part_index + 1], var.offset, var.index)
      [] var.entry = "Public" -> EFFromBase(f.public_values[var.index + 1])
      [] var.entry = "Permutation" ->
            ViewGet(f.after_challenge[1], var.offset, var.index)
      [] var.entry = "Challenge" -> f.challenges[1][var.index + 1]
      [] OTHER -> f.exposed_values_after_challenge[1][var.index + 1]

VerifierEvalNodeSubSwapped(f, node, vals) ==
    CASE node.tag = "Variable" -> VerifierEvalVar(f, node.var)
      [] node.tag = "Constant" -> EFFromBase(node.c)
      [] node.tag = "Add" -> EFAdd(vals[node.left_idx], vals[node.right_idx])
      [] node.tag = "Sub" -> EFSub(vals[node.right_idx], vals[node.left_idx])
      [] node.tag = "Neg" -> EFNeg(vals[node.left_idx])
      [] node.tag = "Mul" -> EFMul(vals[node.left_idx], vals[node.right_idx])
      [] node.tag = "IsFirstRow" -> f.is_first_row
      [] node.tag = "IsLastRow" -> f.is_last_row
      [] OTHER -> f.is_transition

\* The match of eval_constraints: the value of one node from the values of
\* the nodes before it.
VerifierEvalNode(f, node, vals) ==
    CASE node.tag = "Variable" -> VerifierEvalVar(f, node.var)
      [] node.tag = "Constant" -> EFFromBase(node.c)
      [] node.tag = "Add" -> EFAdd(vals[node.left_idx], vals[node.right_idx])
      [] node.tag = "Sub" -> EFSub(vals[node.left_idx], vals[node.right_idx])
      [] node.tag = "Neg" -> EFNeg(vals[node.left_idx])
      [] node.tag = "Mul" -> EFMul(vals[node.left_idx], vals[node.right_idx])
      [] node.tag = "IsFirstRow" -> f.is_first_row
      [] node.tag = "IsLastRow" -> f.is_last_row
      [] OTHER -> f.is_transition

\* exprs[left_idx], exprs[right_idx] are bounds-checked reads of the values
\* pushed so far.
NodeReadsInRange(node, len) ==
    /\ node.tag \in InternalTags => node.left_idx \in 1 .. len
    /\ node.tag \in BinaryTags => node.right_idx \in 1 .. len

\* The loop `for node in &dag.nodes` over the first n nodes.
RECURSIVE VerifierEvalNodes(_, _, _)
VerifierEvalNodes(f, nodes, n) ==
    IF n = 0 THEN [panicked |-> FALSE, exprs |-> <<>>]
    ELSE LET prev == VerifierEvalNodes(f, nodes, n - 1)
         IN  IF prev.panicked \/ ~NodeReadsInRange(nodes[n], n - 1)
             THEN [panicked |-> TRUE, exprs |-> <<>>]
             ELSE [panicked |-> FALSE,
                   exprs |-> Append(prev.exprs,
                                    VerifierEvalNode(f, nodes[n], prev.exprs))]

\* assert_zero: accumulator *= alpha; accumulator += x
assert_zero(f, x) ==
    [f EXCEPT !.accumulator = EFAdd(EFMul(f.accumulator, f.alpha), x)]

\* The loop `for idx in dag.constraint_idx` over the first n constraints.
RECURSIVE VerifierFold(_, _, _, _)
VerifierFold(f, vals, constraint_idx, n) ==
    IF n = 0 THEN f
    ELSE assert_zero(VerifierFold(f, vals, constraint_idx, n - 1),
                     vals[constraint_idx[n]])

\* eval_constraints: builds the DAG of the constraints, evaluates the nodes
\* in order and folds the constraints.  `exprs` is kept for inspection.
eval_constraints(f, ar, roots) ==
    LET d == build_symbolic_expr_dag(ar, roots)
        ev == VerifierEvalNodes(f, d.nodes, Len(d.nodes))
        ok == /\ ~ev.panicked
              /\ \A k \in 1 .. Len(d.constraint_idx) :
                    d.constraint_idx[k] \in 1 .. Len(ev.exprs)
    IN  IF ~ok THEN [panicked |-> TRUE, exprs |-> <<>>, folder |-> f]
        ELSE [panicked |-> FALSE, exprs |-> ev.exprs,
              folder |-> VerifierFold(f, ev.exprs, d.constraint_idx,
                                      Len(d.constraint_idx))]

\* SymbolicEvaluator::eval_expr: the recursive evaluation of an expression
\* tree, the reference semantics of an expression.
RECURSIVE eval_expr(_, _, _)
eval_expr(f, ar, a) ==
    LET e == ar[a]
    IN  CASE e.tag = "Variable" -> VerifierEvalVar(f, e.var)
          [] e.tag = "Constant" -> EFFromBase(e.c)
          [] e.tag = "Add" -> EFAdd(eval_expr(f, ar, e.x), eval_expr(f, ar, e.y))
          [] e.tag = "Sub" -> EFSub(eval_expr(f, ar, e.x), eval_expr(f, ar, e.y))
          [] e.tag = "Neg" -> EFNeg(eval_expr(f, ar, e.x))
          [] e.tag = "Mul" -> EFMul(eval_expr(f, ar, e.x), eval_expr(f, ar, e.y))
          [] e.tag = "IsFirstRow" -> f.is_first_row
          [] e.tag = "IsLastRow" -> f.is_last_row
          [] OTHER -> f.is_transition

(***************************************************************************)
(* Specification SpecDag: a caller allocates shared expressions, hands     *)
(* roots to build_symbolic_expr_dag, then rebuilds or evaluates.           *)
(***************************************************************************)
NumFolders == 2     \* sample assignments fed to the verifier folder

MainVar == SymbolicVariable("Main", 0, 0, 0)

DagLeaves ==
    << LeafExpr("Variable", MainVar, 0),
       LeafExpr("IsFirstRow", NoVar, 0),
       LeafExpr("IsLastRow", NoVar, 0),
       LeafExpr("IsTransition", NoVar, 0),
       LeafExpr("Constant", NoVar, 1) >>

LeafRank(e) == CHOOSE i \in 1 .. Len(DagLeaves) : DagLeaves[i] = e

\* The k-th sample folder: one column per view, one value per vector.
SampleView(k) ==
    [local |-> << <<(2 * k) % P, k % P>> >>,
     next |-> << <<(3 * k + 1) % P, (k + 2) % P>> >>]

SampleFolder(k) ==
    [preprocessed |-> SampleView(k + 1),
     partitioned_main |-> << SampleView(k) >>,
     after_challenge |-> << SampleView(k + 2) >>,
     challenges |-> << << <<(k + 3) % P, 1>> >> >>,
     public_values |-> << (k + 4) % P >>,
     exposed_values_after_challenge |-> << << <<1, (2 * k) % P>> >> >>,
     is_first_row |-> <<k % 2, 0>>,
     is_last_row |-> <<(k + 1) % P, (k - 1) % 2>>,
     is_transition |-> <<(4 * k) % P, (k - 1) % 2>>,
     alpha |-> <<(k + 1) % P, 1>>,
     accumulator |-> EFZero]

NoRebuilt == [panicked |-> FALSE, arena |-> <<>>, exprs |-> <<>>]
NoAcc == [sample |-> 0, alpha |-> EFZero,
          out |-> [panicked |-> FALSE, undefined |-> FALSE, exprs |-> <<>>,
                   accumulator |-> <<>>]]
NoPacked == [op |-> "none", a |-> <<>>, b |-> <<>>, out |-> <<>>]
NoQuotientInputs ==
    [constraints |-> 0, seed |-> 0, log_trace_height |-> 0,
     log_quotient_degree |-> 0, log_width |-> 0, num_threads |-> 0]
NoFib == [a |-> 0, b |-> 0, row |-> 0, values |-> <<>>]
NoFolder == [panicked |-> FALSE, exprs |-> <<>>, folder |-> SampleFolder(0)]

\* The variables of a part of the model that a specification does not use.
IdleDag ==
    /\ arena = <<>>
    /\ exprs = <<>>
    /\ dag = EmptyDag
    /\ expr_to_idx = <<>>
    /\ rebuilt = NoRebuilt
    /\ folder = NoFolder
IdleEval == acc = NoAcc
IdlePacked == pe = NoPacked
IdleQuotient ==
    /\ qin = NoQuotientInputs
    /\ chunk_idx = 0
    /\ column = <<>>
    /\ tasks = <<>>
    /\ quotient_chunks = <<>>
IdleFib == fib = NoFib
NoSer == [dag |-> EmptyDag, bytes |-> <<>>, decoded |-> <<>>]
IdleSerde == ser = NoSer
IdleViews ==
    /\ common_main_pcs_data = <<>> /\ prover_data_after = <<>>
    /\ extended_views = <<>>
IdleProve ==
    /\ airs = <<>> /\ has_phase = FALSE /\ events = <<>> /\ air_idx = 0
    /\ quotient_data = <<>> /\ pcs_commits = <<>> /\ quotient_pcs = <<>>
    /\ IdleViews

InitDag ==
    /\ phase = "construct"
    /\ IdleDag /\ IdleEval /\ IdlePacked /\ IdleQuotient /\ IdleFib
    /\ IdleProve /\ IdleSerde

\* Arc::new(leaf).  References only matter by identity, so the leaves are
\* allocated before the operations that use them, in the order of DagLeaves;
\* a leaf may be allocated more than once.
NewLeaf ==
    /\ phase = "construct"
    /\ Len(arena) < MaxArena
    /\ \A a \in 1 .. Len(arena) : arena[a].tag \in LeafTags
    /\ \E i \in 1 .. Len(DagLeaves) :
          /\ arena # <<>> => LeafRank(arena[Len(arena)]) <= i
          /\ arena' = Append(arena, DagLeaves[i])
    /\ UNCHANGED <<phase, exprs, dag, expr_to_idx, rebuilt, folder, notDagVars>>

\* Arc::new(x op y) and Arc::new(-x) on expressions already allocated.
NewOp ==
    /\ phase = "construct"
    /\ Len(arena) < MaxArena
    /\ \E tag \in InternalTags, x \in 1 .. Len(arena), y \in 1 .. Len(arena) :
          /\ tag = "Neg" => y = x
          /\ arena' = Append(arena,
                 Expr(tag, NoVar, 0, x, IF tag = "Neg" THEN 0 ELSE y,
                      OpDegree(tag, ExprDegree(arena[x]), ExprDegree(arena[y]))))
    /\ UNCHANGED <<phase, exprs, dag, expr_to_idx, rebuilt, folder, notDagVars>>

\* References reachable from reference a (a itself included).
RECURSIVE Reach(_, _)
Reach(ar, a) ==
    LET e == ar[a]
    IN  {a} \cup (IF e.tag \in InternalTags THEN Reach(ar, e.x) ELSE {})
            \cup (IF e.tag \in BinaryTags THEN Reach(ar, e.y) ELSE {})

RootSeqs(n) == UNION { [1 .. m -> 1 .. n] : m \in 0 .. MaxRoots }

\* build_symbolic_expr_dag(&exprs) on roots that are (clones of) allocated
\* expressions.  Every allocated expression is part of some root: one that no
\* root reaches is never visited by the build.
Build ==
    /\ phase = "construct"
    /\ \E roots \in RootSeqs(Len(arena)) :
          /\ UNION { Reach(arena, roots[k]) : k \in 1 .. Len(roots) }
                = 1 .. Len(arena)
          /\ exprs' = roots
          /\ LET b == build_symbolic_expr_dag(arena, roots)
             IN  /\ dag' = [nodes |-> b.nodes, constraint_idx |-> b.constraint_idx]
                 /\ expr_to_idx' = b.expr_to_idx
    /\ phase' = "built"
    /\ UNCHANGED <<arena, rebuilt, folder, notDagVars>>

Rebuild ==
    /\ phase = "built"
    /\ rebuilt' = to_symbolic_expressions(dag)
    /\ phase' = "rebuilt"
    /\ UNCHANGED <<arena, exprs, dag, expr_to_idx, folder, notDagVars>>

EvalConstraints ==
    /\ phase = "built"
    /\ \E k \in 1 .. NumFolders :
          folder' = eval_constraints(SampleFolder(k), arena, exprs)
    /\ phase' = "evaluated"
    /\ UNCHANGED <<arena, exprs, dag, expr_to_idx, rebuilt, notDagVars>>

NextDag == NewLeaf \/ NewOp \/ Build \/ Rebuild \/ EvalConstraints

SpecDag == InitDag /\ [][NextDag]_vars

(***************************************************************************)
(* Properties of the DAG build.                                            *)
(***************************************************************************)
DagBuilt == phase \in {"built", "rebuilt", "evaluated"}

\* C1: after build_symbolic_expr_dag every Add, Sub, Mul and Neg node has all
\* of its child indices strictly below its own index, and every entry of
\* constraint_idx is an index of `nodes`.
C1_Topological ==
    DagBuilt =>
        /\ \A i \in 1 .. Len(dag.nodes) :
              LET n == dag.nodes[i]
              IN  /\ n.tag \in InternalTags =>
                        n.left_idx >= 1 /\ n.left_idx < i
                  /\ n.tag \in BinaryTags =>
                        n.right_idx >= 1 /\ n.right_idx < i
        /\ \A k \in 1 .. Len(dag.constraint_idx) :
              dag.constraint_idx[k] >= 1 /\ dag.constraint_idx[k] <= Len(dag.nodes)

C1_Witness ==
    /\ phase = "built"
    /\ Len(dag.constraint_idx) = 2
    /\ \E i \in 1 .. Len(dag.nodes) :
          /\ dag.nodes[i].tag \in BinaryTags
          /\ dag.nodes[i].left_idx # dag.nodes[i].right_idx
    /\ \E i \in 1 .. Len(dag.nodes) : dag.nodes[i].tag = "Neg"

ReachRoots == UNION { Reach(arena, exprs[k]) : k \in 1 .. Len(exprs) }

IdxOf(a) == expr_to_idx[ExprKey(arena[a])]

\* arena is the chain y_0 = x, y_{i+1} = y_i + y_i and the last link is the root.
IsChain ==
    /\ Len(arena) >= 2
    /\ arena[1].tag = "Variable"
    /\ \A i \in 2 .. Len(arena) :
          arena[i].tag = "Add" /\ arena[i].x = i - 1 /\ arena[i].y = i - 1
    /\ exprs = << Len(arena) >>

\* the single root is Mul{x, x} with both arguments the same reference to a variable
IsSquare ==
    /\ Len(exprs) = 1
    /\ arena[exprs[1]].tag = "Mul"
    /\ arena[exprs[1]].x = arena[exprs[1]].y
    /\ arena[arena[exprs[1]].x].tag = "Variable"

\* C2: within one build, an expression reached more than once through the
\* same reference is appended once and every visit returns that index: each
\* reachable reference has one index, parents and constraint_idx use it, the
\* number of nodes does not exceed the number of reachable references; the
\* square yields one Variable and one Mul with equal indices, and the chain
\* of depth n yields n+1 nodes.
C2_Dedup ==
    DagBuilt =>
        /\ \A a \in ReachRoots :
              /\ ExprKey(arena[a]) \in DOMAIN expr_to_idx
              /\ IdxOf(a) \in 1 .. Len(dag.nodes)
              /\ dag.nodes[IdxOf(a)].tag = arena[a].tag
              /\ arena[a].tag \in InternalTags =>
                    dag.nodes[IdxOf(a)].left_idx = IdxOf(arena[a].x)
              /\ arena[a].tag \in BinaryTags =>
                    dag.nodes[IdxOf(a)].right_idx = IdxOf(arena[a].y)
        /\ \A k \in 1 .. Len(exprs) : dag.constraint_idx[k] = IdxOf(exprs[k])
        /\ Len(dag.nodes) <= Cardinality(ReachRoots)
        /\ Len(dag.nodes) = Cardinality(DOMAIN expr_to_idx)
        /\ IsSquare =>
              /\ Len(dag.nodes) = 2
              /\ dag.nodes[1].tag = "Variable"
              /\ dag.nodes[2].tag = "Mul"
              /\ dag.nodes[2].left_idx = 1 /\ dag.nodes[2].right_idx = 1
        /\ IsChain => Len(dag.nodes) = Len(arena)

\* a chain of depth 2 whose tree has 4 leaves, and a node shared by two roots
C2_Witness ==
    /\ phase = "built"
    /\ \/ IsChain /\ Len(arena) = 3
       \/ IsSquare

\* C3: to_symbolic_expressions(build_symbolic_expr_dag(rs)) is value-equal to
\* rs: same length, same order, each rebuilt root structurally equal to the
\* original, degree_multiple included.
C3_RoundTrip ==
    phase = "rebuilt" =>
        /\ ~rebuilt.panicked
        /\ Len(rebuilt.exprs) = Len(exprs)
        /\ \A k \in 1 .. Len(exprs) :
              ExprTree(rebuilt.arena, rebuilt.exprs[k]) = ExprTree(arena, exprs[k])

C3_Witness ==
    /\ phase = "rebuilt"
    /\ Len(exprs) = 2
    /\ exprs[1] # exprs[2]
    /\ arena[exprs[1]].tag = "Sub"
    /\ arena[exprs[1]].x # arena[exprs[1]].y
    /\ arena[exprs[1]].degree_multiple = 1

\* C4: interpreting the nodes once in index order yields at node
\* constraint_idx[k] the value of root k evaluated recursively as a tree, for
\* the assignment in use; constraint_idx has one entry per root, in root order.
C4_InterpreterAgrees ==
    phase = "evaluated" =>
        /\ ~folder.panicked
        /\ Len(dag.constraint_idx) = Len(exprs)
        /\ Len(folder.exprs) = Len(dag.nodes)
        /\ \A k \in 1 .. Len(exprs) :
              folder.exprs[dag.constraint_idx[k]]
                  = eval_expr(folder.folder, arena, exprs[k])

C4_Witness ==
    /\ phase = "evaluated"
    /\ Len(exprs) = 2
    /\ arena[exprs[1]].tag = "Sub"
    /\ arena[exprs[2]].tag = "Mul"
    /\ arena[exprs[1]].x # arena[exprs[1]].y
    /\ folder.exprs[dag.constraint_idx[1]] # EFZero
    /\ folder.exprs[dag.constraint_idx[2]] # EFZero

(***************************************************************************)
(* Packed (SIMD) values.  A PackedVal is one Val per lane; a               *)
(* PackedChallenge is the binomial extension over PackedVal: D             *)
(* coefficients, each a PackedVal.                                         *)
(***************************************************************************)
PVBroadcast(x, w) == [j \in 1 .. w |-> x]
PVAdd(x, y) == [j \in 1 .. Len(x) |-> FAdd(x[j], y[j])]
PVSub(x, y) == [j \in 1 .. Len(x) |-> FSub(x[j], y[j])]
PVMul(x, y) == [j \in 1 .. Len(x) |-> FMul(x[j], y[j])]
PVNeg(x) == [j \in 1 .. Len(x) |-> FNeg(x[j])]
PVZero(w) == PVBroadcast(0, w)

\* PackedChallenge::from_f: every lane holds the same extension element.
PCFromF(a, w) == <<PVBroadcast(a[1], w), PVBroadcast(a[2], w)>>
\* PackedVal -> PackedChallenge (`x.into()`)
PCFromBase(x) == <<x, PVZero(Len(x))>>
PCZero(w) == <<PVZero(w), PVZero(w)>>
PCAdd(a, b) == <<PVAdd(a[1], b[1]), PVAdd(a[2], b[2])>>
PCSub(a, b) == <<PVSub(a[1], b[1]), PVSub(a[2], b[2])>>
PCNeg(a) == <<PVNeg(a[1]), PVNeg(a[2])>>
PCMul(a, b) ==
    <<PVAdd(PVMul(a[1], b[1]),
            PVMul(PVBroadcast(NR, Len(a[1])), PVMul(a[2], b[2]))),
      PVAdd(PVMul(a[1], b[2]), PVMul(a[2], b[1]))>>
\* PackedChallenge (+, -, *) PackedVal
PCAddBase(a, x) == <<PVAdd(a[1], x), a[2]>>
PCSubBase(a, x) == <<PVSub(a[1], x), a[2]>>
PCMulBase(a, x) == <<PVMul(a[1], x), PVMul(a[2], x)>>

\* Lane j of a PackedChallenge as a scalar Challenge.
PCLane(a, j) == <<a[1][j], a[2][j]>>

(***************************************************************************)
(* PackedExpr and its arithmetic.                                          *)
(***************************************************************************)
PEVal(x) == [kind |-> "Val", val |-> x, challenge |-> <<>>]
PEChallenge(a) == [kind |-> "Challenge", val |-> <<>>, challenge |-> a]
\* what a read of memory that was never written, or out of bounds, yields:
\* any value at all
PEUndef == [kind |-> "Undef", val |-> <<>>, challenge |-> <<>>]
\* the evaluation panicked
PEPanic == [kind |-> "Panic", val |-> <<>>, challenge |-> <<>>]
PEGood(a) == a.kind \in {"Val", "Challenge"}
\* The PackedExpr as a PackedChallenge (Val lifted by PackedChallenge::from).
PELift(a) == IF a.kind = "Val" THEN PCFromBase(a.val) ELSE a.challenge

PEAdd(a, b) ==
    CASE a.kind = "Val" /\ b.kind = "Val" -> PEVal(PVAdd(a.val, b.val))
      [] a.kind = "Val" /\ b.kind = "Challenge" ->
            PEChallenge(PCAddBase(b.challenge, a.val))
      [] a.kind = "Challenge" /\ b.kind = "Val" ->
            PEChallenge(PCAddBase(a.challenge, b.val))
      [] OTHER -> PEChallenge(PCAdd(a.challenge, b.challenge))

PESubInverse(a, b) ==
    CASE a.kind = "Val" /\ b.kind = "Val" -> PEVal(PVSub(a.val, b.val))
      [] a.kind = "Val" /\ b.kind = "Challenge" ->
            PEChallenge(PCSubBase(b.challenge, a.val))
      [] a.kind = "Challenge" /\ b.kind = "Val" ->
            PEChallenge(PCSubBase(a.challenge, b.val))
      [] OTHER -> PEChallenge(PCSub(a.challenge, b.challenge))

PESub(a, b) ==
    CASE a.kind = "Val" /\ b.kind = "Val" -> PEVal(PVSub(a.val, b.val))
      [] a.kind = "Val" /\ b.kind = "Challenge" ->
            PEChallenge(PCSub(PCFromBase(a.val), b.challenge))
      [] a.kind = "Challenge" /\ b.kind = "Val" ->
            PEChallenge(PCSubBase(a.challenge, b.val))
      [] OTHER -> PEChallenge(PCSub(a.challenge, b.challenge))

PEMulKeepsVal(a, b) ==
    CASE a.kind = "Val" /\ b.kind = "Val" -> PEVal(PVMul(a.val, b.val))
      [] a.kind = "Val" /\ b.kind = "Challenge" ->
            PEVal(PVMul(b.challenge[1], a.val))
      [] a.kind = "Challenge" /\ b.kind = "Val" ->
            PEChallenge(PCMulBase(a.challenge, b.val))
      [] OTHER -> PEChallenge(PCMul(a.challenge, b.challenge))

PEMul(a, b) ==
    CASE a.kind = "Val" /\ b.kind = "Val" -> PEVal(PVMul(a.val, b.val))
      [] a.kind = "Val" /\ b.kind = "Challenge" ->
            PEChallenge(PCMulBase(b.challenge, a.val))
      [] a.kind = "Challenge" /\ b.kind = "Val" ->
            PEChallenge(PCMulBase(a.challenge, b.val))
      [] OTHER -> PEChallenge(PCMul(a.challenge, b.challenge))

PENeg(a) ==
    CASE a.kind = "Val" -> PEVal(PVNeg(a.val))
      [] OTHER -> PEChallenge(PCNeg(a.challenge))

(***************************************************************************)
(* ProverConstraintEvaluator.                                              *)
(***************************************************************************)
ViewPairGetLocalOnly(view, row_offset, column_idx) ==
    CASE row_offset \in {0, 1} ->
            IF column_idx + 1 \in 1 .. Len(view.local)
            THEN [ok |-> "ok", v |-> view.local[column_idx + 1]]
            ELSE [ok |-> "undef", v |-> <<>>]
      [] OTHER -> [ok |-> "panic", v |-> <<>>]

\* Variant: any row offset past 0 reads the next row.
ViewPairGetAnyOffset(view, row_offset, column_idx) ==
    IF row_offset = 0
    THEN IF column_idx + 1 \in 1 .. Len(view.local)
         THEN [ok |-> "ok", v |-> view.local[column_idx + 1]]
         ELSE [ok |-> "undef", v |-> <<>>]
    ELSE IF view.has_next /\ column_idx + 1 \in 1 .. Len(view.next)
         THEN [ok |-> "ok", v |-> view.next[column_idx + 1]]
         ELSE [ok |-> "undef", v |-> <<>>]

\* ViewPair::get of the prover (no bounds checks).
ViewPairGet(view, row_offset, column_idx) ==
    CASE row_offset = 0 ->
            IF column_idx + 1 \in 1 .. Len(view.local)
            THEN [ok |-> "ok", v |-> view.local[column_idx + 1]]
            ELSE [ok |-> "undef", v |-> <<>>]
      [] row_offset = 1 ->
            IF view.has_next /\ column_idx + 1 \in 1 .. Len(view.next)
            THEN [ok |-> "ok", v |-> view.next[column_idx + 1]]
            ELSE [ok |-> "undef", v |-> <<>>]
      [] OTHER -> [ok |-> "panic", v |-> <<>>]

\* get_unchecked on a slice
GetUnchecked(seq, idx) ==
    IF idx + 1 \in 1 .. Len(seq)
    THEN [ok |-> "ok", v |-> seq[idx + 1]]
    ELSE [ok |-> "undef", v |-> <<>>]

AsVal(r) ==
    CASE r.ok = "ok" -> PEVal(r.v) [] r.ok = "undef" -> PEUndef [] OTHER -> PEPanic
AsChallenge(r) ==
    CASE r.ok = "ok" -> PEChallenge(r.v) [] r.ok = "undef" -> PEUndef
      [] OTHER -> PEPanic

\* self.partitioned_main[part_index] is a checked index.
eval_var(ev, var) ==
    CASE var.entry = "Preprocessed" ->
            AsVal(ViewPairGet(ev.preprocessed, var.offset, var.index))
      [] var.entry = "Main" ->
            IF var.part_index + 1 \in 1 .. Len(ev.partitioned_main)
            THEN AsVal(ViewPairGet(ev.partitioned_main[var.part_index + 1],
                                   var.offset, var.index))
            ELSE PEPanic
      [] var.entry = "Public" ->
            LET r == GetUnchecked(ev.public_values, var.index)
            IN  IF r.ok = "ok" THEN PEVal(PVBroadcast(r.v, ev.width)) ELSE PEUndef
      [] var.entry = "Permutation" ->
            LET perm == GetUnchecked(ev.after_challenge, 0)
            IN  IF perm.ok = "ok"
                THEN AsChallenge(ViewPairGet(perm.v, var.offset, var.index))
                ELSE PEUndef
      [] var.entry = "Challenge" ->
            LET c == GetUnchecked(ev.challenges, 0)
            IN  IF c.ok = "ok" THEN AsChallenge(GetUnchecked(c.v, var.index))
                ELSE PEUndef
      [] OTHER ->
            LET c == GetUnchecked(ev.exposed_values_after_challenge, 0)
            IN  IF c.ok = "ok" THEN AsChallenge(GetUnchecked(c.v, var.index))
                ELSE PEUndef

\* exprs.get_unchecked(idx) of the expression buffer
BufGet(buf, idx) == IF idx \in 1 .. Len(buf) THEN buf[idx] ELSE PEUndef

Combine1(a, r) ==
    CASE a.kind = "Panic" -> PEPanic [] a.kind = "Undef" -> PEUndef [] OTHER -> r
Combine2(a, b, r) ==
    CASE a.kind = "Panic" \/ b.kind = "Panic" -> PEPanic
      [] a.kind = "Undef" \/ b.kind = "Undef" -> PEUndef
      [] OTHER -> r

\* The match of eval_nodes_mut: the value stored for one node.
EvalNodeMut(ev, node, buf) ==
    CASE node.tag = "Variable" -> eval_var(ev, node.var)
      [] node.tag = "Constant" -> PEVal(PVBroadcast(node.c, ev.width))
      [] node.tag = "Add" ->
            LET a == BufGet(buf, node.left_idx) b == BufGet(buf, node.right_idx)
            IN  Combine2(a, b, PEAdd(a, b))
      [] node.tag = "Sub" ->
            LET a == BufGet(buf, node.left_idx) b == BufGet(buf, node.right_idx)
            IN  Combine2(a, b, PESub(a, b))
      [] node.tag = "Neg" ->
            LET a == BufGet(buf, node.left_idx) IN Combine1(a, PENeg(a))
      [] node.tag = "Mul" ->
            LET a == BufGet(buf, node.left_idx) b == BufGet(buf, node.right_idx)
            IN  Combine2(a, b, PEMul(a, b))
      [] node.tag = "IsFirstRow" -> PEVal(ev.is_first_row)
      [] node.tag = "IsLastRow" -> PEVal(ev.is_last_row)
      [] OTHER -> PEVal(ev.is_transition)

\* exprs.set_len(nodes.len()) on the reused buffer: the slots keep what an
\* earlier batch left in them, slots never written hold anything.
SetLen(buf, n) == [i \in 1 .. n |-> IF i <= Len(buf) THEN buf[i] ELSE PEUndef]

\* A loop that walks the nodes from the last to the first: operands are read
\* before this pass has written them.
RECURSIVE EvalNodesLoopBackward(_, _, _, _)
EvalNodesLoopBackward(ev, nodes, buf, n) ==
    IF n > Len(buf) THEN buf
    ELSE LET i == Len(buf) + 1 - n
         IN  EvalNodesLoopBackward(ev, nodes,
                 [buf EXCEPT ![i] = EvalNodeMut(ev, nodes[i], buf)], n + 1)

\* eval_nodes_mut: the loop over the nodes from the n-th on, writing slot by
\* slot into the buffer that set_len gave one slot per node.
RECURSIVE EvalNodesLoop(_, _, _, _)
EvalNodesLoop(ev, nodes, buf, n) ==
    IF n > Len(buf) THEN buf
    ELSE EvalNodesLoop(ev, nodes,
                       [buf EXCEPT ![n] = EvalNodeMut(ev, nodes[n], buf)], n + 1)

eval_nodes_mut(ev, nodes, node_exprs) ==
    EvalNodesLoop(ev, nodes, SetLen(node_exprs, Len(nodes)), 1)

\* acc += alpha_pow * x for the j-th pair of zip(alpha_powers, constraint_idx.rev())
AccumulateTerm(sum, alpha_pow, x) ==
    IF x.kind = "Val" THEN PCAdd(sum, PCMulBase(alpha_pow, x.val))
    ELSE PCAdd(sum, PCMul(alpha_pow, x.challenge))

ZipIndexForward(constraint_idx, j) == constraint_idx[j]

\* the j-th element of constraint_idx.iter().rev()
ZipIndex(constraint_idx, j) == constraint_idx[Len(constraint_idx) + 1 - j]

\* The fold over the first n pairs of the zip.
RECURSIVE AccumulateLoop(_, _, _, _, _)
AccumulateLoop(alpha_powers, constraint_idx, node_exprs, w, n) ==
    IF n = 0 THEN [bad |-> FALSE, acc |-> PCZero(w)]
    ELSE LET prev == AccumulateLoop(alpha_powers, constraint_idx, node_exprs, w, n - 1)
             x == BufGet(node_exprs, ZipIndex(constraint_idx, n))
         IN  IF prev.bad \/ ~PEGood(x) THEN [bad |-> TRUE, acc |-> PCZero(w)]
             ELSE [bad |-> FALSE,
                   acc |-> AccumulateTerm(prev.acc, alpha_powers[n], x)]

\* accumulate: [panicked, undefined, exprs, accumulator].  `undefined` says that
\* a value that was never written took part, so the result is arbitrary.
accumulate(ev, constraints, alpha_powers, node_exprs) ==
    LET buf == eval_nodes_mut(ev, constraints.nodes, node_exprs)
        panicked == \E i \in 1 .. Len(buf) : buf[i].kind = "Panic"
        n == Min(Len(alpha_powers), Len(constraints.constraint_idx))
        fold == AccumulateLoop(alpha_powers, constraints.constraint_idx, buf,
                               ev.width, n)
    IN  [panicked |-> panicked,
         undefined |-> ~panicked /\ fold.bad,
         exprs |-> buf,
         accumulator |-> IF panicked \/ fold.bad THEN PCZero(ev.width)
                         ELSE fold.acc]

(***************************************************************************)
(* SpecEval: accumulate on DAGs of the proving key, one packed batch of    *)
(* rows per call.                                                          *)
(***************************************************************************)
MaxNodes == 3
MaxConstraints == 2
NumSamples == 2
EvalLanes == 2

\* The leaves of the evaluated DAGs: one variable of each Entry (Main at both
\* row offsets), a constant and the three selectors.
EvalLeaves ==
    << Node("Variable", SymbolicVariable("Preprocessed", 0, 0, 0), 0, 0, 0, 0),
       Node("Variable", SymbolicVariable("Main", 0, 0, 0), 0, 0, 0, 0),
       Node("Variable", SymbolicVariable("Main", 0, 1, 0), 0, 0, 0, 0),
       Node("Variable", SymbolicVariable("Public", 0, 0, 0), 0, 0, 0, 0),
       Node("Variable", SymbolicVariable("Permutation", 0, 0, 0), 0, 0, 0, 0),
       Node("Variable", SymbolicVariable("Challenge", 0, 0, 0), 0, 0, 0, 0),
       Node("Variable", SymbolicVariable("Exposed", 0, 0, 0), 0, 0, 0, 0),
       Node("Constant", NoVar, 2, 0, 0, 0),
       Node("IsFirstRow", NoVar, 0, 0, 0, 0),
       Node("IsLastRow", NoVar, 0, 0, 0, 0),
       Node("IsTransition", NoVar, 0, 0, 0, 0) >>

EvalLeafRank(n) == CHOOSE i \in 1 .. Len(EvalLeaves) : EvalLeaves[i] = n

NodeDegree(n) ==
    IF n.tag \in LeafTags THEN LeafDegree(n.tag, n.var) ELSE n.degree_multiple

\* A packed value and a packed extension value of the k-th sample batch.
SamplePacked(k, s) == [j \in 1 .. EvalLanes |-> (k * s + j * (s + 1)) % P]
SamplePackedChallenge(k, s) == <<SamplePacked(k, s), SamplePacked(k + 1, s + 2)>>

\* The evaluator that the per-batch loop of compute_single_rap_quotient_values
\* constructs: every view has one column and a next row.
SampleEvaluator(k) ==
    [width |-> EvalLanes,
     preprocessed |-> [local |-> <<SamplePacked(k, 1)>>,
                       next |-> <<SamplePacked(k, 2)>>, has_next |-> TRUE],
     partitioned_main |-> << [local |-> <<SamplePacked(k, 3)>>,
                              next |-> <<SamplePacked(k, 4)>>,
                              has_next |-> TRUE] >>,
     after_challenge |-> << [local |-> <<SamplePackedChallenge(k, 5)>>,
                             next |-> <<SamplePackedChallenge(k, 6)>>,
                             has_next |-> TRUE] >>,
     challenges |-> << << PCFromF(<<(k + 2) % P, (k + 3) % P>>, EvalLanes) >> >>,
     is_first_row |-> SamplePacked(k, 7),
     is_last_row |-> SamplePacked(k, 8),
     is_transition |-> SamplePacked(k, 9),
     public_values |-> << (k + 1) % P >>,
     exposed_values_after_challenge |->
         << << PCFromF(<<(2 * k) % P, (k + 4) % P>>, EvalLanes) >> >>]

SampleAlpha(k) == <<(k + 1) % P, k % P>>

\* alpha.powers().take(n) as PackedChallenge, increasing powers.
AlphaPowers(alpha, n, w) == [i \in 1 .. n |-> PCFromF(EFPow(alpha, i - 1), w)]

InitEval ==
    /\ phase = "nodes"
    /\ IdleDag /\ IdleEval /\ IdlePacked /\ IdleQuotient /\ IdleFib
    /\ IdleProve /\ IdleSerde

\* nodes.push(leaf): leaves come first, each at most once, in the order of
\* EvalLeaves.
AddLeafNode ==
    /\ phase = "nodes"
    /\ Len(dag.nodes) < MaxNodes
    /\ \A i \in 1 .. Len(dag.nodes) : dag.nodes[i].tag \in LeafTags
    /\ \E i \in 1 .. Len(EvalLeaves) :
          /\ dag.nodes # <<>> => EvalLeafRank(dag.nodes[Len(dag.nodes)]) < i
          /\ dag' = [dag EXCEPT !.nodes = Append(@, EvalLeaves[i])]
    /\ UNCHANGED <<phase, acc, notEvalVars>>

\* nodes.push(op) whose operands are earlier nodes.
AddOpNode ==
    /\ phase = "nodes"
    /\ Len(dag.nodes) < MaxNodes
    /\ \E tag \in InternalTags, l \in 1 .. Len(dag.nodes), r \in 1 .. Len(dag.nodes) :
          /\ tag = "Neg" => r = l
          /\ dag' = [dag EXCEPT !.nodes = Append(@,
                 Node(tag, NoVar, 0, l, IF tag = "Neg" THEN 0 ELSE r,
                      OpDegree(tag, NodeDegree(dag.nodes[l]),
                               NodeDegree(dag.nodes[r]))))]
    /\ UNCHANGED <<phase, acc, notEvalVars>>

\* Node indices that node i depends on (i included).
RECURSIVE NodeReach(_, _)
NodeReach(nodes, i) ==
    LET n == nodes[i]
    IN  {i} \cup (IF n.tag \in InternalTags THEN NodeReach(nodes, n.left_idx) ELSE {})
            \cup (IF n.tag \in BinaryTags THEN NodeReach(nodes, n.right_idx) ELSE {})

ConstraintSeqs(n) == UNION { [1 .. m -> 1 .. n] : m \in 1 .. MaxConstraints }

\* The constraint list of the DAG: every node serves some constraint, and the
\* constraints are listed in the order of their nodes.
Seal ==
    /\ phase = "nodes"
    /\ \E cs \in ConstraintSeqs(Len(dag.nodes)) :
          /\ UNION { NodeReach(dag.nodes, cs[k]) : k \in 1 .. Len(cs) }
                = 1 .. Len(dag.nodes)
          /\ \A k \in 1 .. Len(cs) - 1 : cs[k] < cs[k + 1]
          /\ dag' = [dag EXCEPT !.constraint_idx = cs]
    /\ phase' = "sealed"
    /\ UNCHANGED <<acc, notEvalVars>>

\* evaluator.accumulate(constraints, &alpha_powers, &mut node_exprs) on a
\* fresh buffer.
Accumulate ==
    /\ phase = "sealed"
    /\ \E k \in 1 .. NumSamples :
          acc' = [sample |-> k, alpha |-> SampleAlpha(k),
                  out |-> accumulate(SampleEvaluator(k), dag,
                              AlphaPowers(SampleAlpha(k), Len(dag.constraint_idx),
                                          EvalLanes),
                              <<>>)]
    /\ phase' = "accumulated"
    /\ UNCHANGED <<dag, notEvalVars>>

NextEval == AddLeafNode \/ AddOpNode \/ Seal \/ Accumulate
SpecEval == InitEval /\ [][NextEval]_vars

\* Lane j of node i computed in the extension field, every leaf lifted.
RECURSIVE RefEval(_, _, _, _)
RefEval(ev, nodes, i, j) ==
    LET n == nodes[i]
    IN  CASE n.tag = "Variable" -> PCLane(PELift(eval_var(ev, n.var)), j)
          [] n.tag = "Constant" -> EFFromBase(n.c)
          [] n.tag = "IsFirstRow" -> EFFromBase(ev.is_first_row[j])
          [] n.tag = "IsLastRow" -> EFFromBase(ev.is_last_row[j])
          [] n.tag = "IsTransition" -> EFFromBase(ev.is_transition[j])
          [] n.tag = "Add" -> EFAdd(RefEval(ev, nodes, n.left_idx, j),
                                    RefEval(ev, nodes, n.right_idx, j))
          [] n.tag = "Sub" -> EFSub(RefEval(ev, nodes, n.left_idx, j),
                                    RefEval(ev, nodes, n.right_idx, j))
          [] n.tag = "Mul" -> EFMul(RefEval(ev, nodes, n.left_idx, j),
                                    RefEval(ev, nodes, n.right_idx, j))
          [] OTHER -> EFNeg(RefEval(ev, nodes, n.left_idx, j))

\* sum over the first n constraints of alpha^(C-1-k) * eval(constraint_idx[k]),
\* k counted from 0.
RECURSIVE WeightedSum(_, _, _, _, _)
WeightedSum(ev, d, alpha, j, n) ==
    IF n = 0 THEN EFZero
    ELSE EFAdd(WeightedSum(ev, d, alpha, j, n - 1),
               EFMul(EFPow(alpha, Len(d.constraint_idx) - n),
                     RefEval(ev, d.nodes, d.constraint_idx[n], j)))

\* C5: accumulate with alpha_powers = [alpha^0 .. alpha^(C-1)] returns, in every
\* lane, the sum over k of alpha^(C-1-k) * eval(constraint_idx[k]): the first
\* constraint carries the highest power, the last one alpha^0.
C5_AccumulateOrder ==
    (phase = "accumulated" /\ ~acc.out.panicked /\ ~acc.out.undefined) =>
        \A j \in 1 .. EvalLanes :
            PCLane(acc.out.accumulator, j)
              = WeightedSum(SampleEvaluator(acc.sample), dag, acc.alpha, j,
                            Len(dag.constraint_idx))

\* two constraints of different value were folded, one of them in the
\* extension field
C5_Witness ==
    /\ phase = "accumulated"
    /\ ~acc.out.panicked /\ ~acc.out.undefined
    /\ Len(dag.constraint_idx) = 2
    /\ acc.out.exprs[dag.constraint_idx[1]] # acc.out.exprs[dag.constraint_idx[2]]
    /\ acc.out.exprs[dag.constraint_idx[1]].kind = "Challenge"
    /\ acc.out.accumulator # PCZero(EvalLanes)

\* The subgraph of node i holds a Permutation, Challenge or Exposed variable.
TouchesChallenge(nodes, i) ==
    \E m \in NodeReach(nodes, i) :
        /\ nodes[m].tag = "Variable"
        /\ nodes[m].var.entry \in {"Permutation", "Challenge", "Exposed"}

\* C8: a node's value is a Challenge exactly when its subgraph contains a
\* Permutation, Challenge or Exposed variable, and a Val otherwise.
C8_ChallengePropagation ==
    phase = "accumulated" =>
        \A i \in 1 .. Len(dag.nodes) :
            acc.out.exprs[i].kind
              = (IF TouchesChallenge(dag.nodes, i) THEN "Challenge" ELSE "Val")

\* a product of a Val node and a Challenge node, and an operation on two Val
\* nodes, were evaluated
C8_Witness ==
    /\ phase = "accumulated"
    /\ \E i \in 1 .. Len(dag.nodes) :
          /\ dag.nodes[i].tag = "Mul"
          /\ acc.out.exprs[dag.nodes[i].left_idx].kind = "Val"
          /\ acc.out.exprs[dag.nodes[i].right_idx].kind = "Challenge"
          /\ acc.out.exprs[i].kind = "Challenge"

(***************************************************************************)
(* SpecPacked: the operators of PackedExpr on every pair of operands.      *)
(***************************************************************************)
PackedLanes == 1

PackedVals == [1 .. PackedLanes -> Val]
PackedChallenges == { <<x, y>> : x \in PackedVals, y \in PackedVals }
PackedExprs ==
    { PEVal(x) : x \in PackedVals } \cup { PEChallenge(c) : c \in PackedChallenges }

InitPacked ==
    /\ phase = "operands"
    /\ IdleDag /\ IdleEval /\ IdleQuotient /\ IdleFib /\ IdleProve
    /\ IdleSerde
    /\ \E a \in PackedExprs, b \in PackedExprs :
          pe = [op |-> "none", a |-> a, b |-> b, out |-> <<>>]

\* a + b
ApplyAdd ==
    /\ phase = "operands"
    /\ pe' = [pe EXCEPT !.op = "Add", !.out = PEAdd(pe.a, pe.b)]
    /\ phase' = "applied"
    /\ UNCHANGED notPackedVars

\* a - b
ApplySub ==
    /\ phase = "operands"
    /\ pe' = [pe EXCEPT !.op = "Sub", !.out = PESub(pe.a, pe.b)]
    /\ phase' = "applied"
    /\ UNCHANGED notPackedVars

\* a * b
ApplyMul ==
    /\ phase = "operands"
    /\ pe' = [pe EXCEPT !.op = "Mul", !.out = PEMul(pe.a, pe.b)]
    /\ phase' = "applied"
    /\ UNCHANGED notPackedVars

\* -a
ApplyNeg ==
    /\ phase = "operands"
    /\ pe' = [pe EXCEPT !.op = "Neg", !.out = PENeg(pe.a)]
    /\ phase' = "applied"
    /\ UNCHANGED notPackedVars

NextPacked == ApplyAdd \/ ApplySub \/ ApplyMul \/ ApplyNeg
SpecPacked == InitPacked /\ [][NextPacked]_vars

\* The operation on the lifted operands, in lane j of the extension field.
LiftedOp(op, a, b, j) ==
    LET x == PCLane(PELift(a), j)
        y == PCLane(PELift(b), j)
    IN  CASE op = "Add" -> EFAdd(x, y)
          [] op = "Sub" -> EFSub(x, y)
          [] op = "Mul" -> EFMul(x, y)
          [] OTHER -> EFNeg(x)

\* C9: for +, -, * and negation and every combination of Val and Challenge
\* operands, the lifted result equals the extension-field operation on the
\* lifted operands in the same operand order; Val(x) - Challenge(y) is
\* lift(x) - y.
C9_PackedArithmetic ==
    phase = "applied" =>
        /\ PEGood(pe.out)
        /\ \A j \in 1 .. PackedLanes :
              PCLane(PELift(pe.out), j) = LiftedOp(pe.op, pe.a, pe.b, j)

\* Val(x) - Challenge(y) was computed where lift(x) - y and y - lift(x) differ
C9_Witness ==
    /\ phase = "applied"
    /\ pe.op = "Sub"
    /\ pe.a.kind = "Val"
    /\ pe.b.kind = "Challenge"
    /\ LiftedOp("Sub", pe.a, pe.b, 1) # LiftedOp("Sub", pe.b, pe.a, 1)

(***************************************************************************)
(* SpecFib: the three-column Fibonacci AIR on the rows of its trace.       *)
(***************************************************************************)
\* n = 1 << log_trace_degree of test_single_fib_triples_stark
FibTraceHeight == 8

\* FibonacciAir::eval under the symbolic builder: the expressions it
\* allocates.  when_first_row / when_transition / when_last_row multiply the
\* asserted difference by the selector.
FibArena ==
    << LeafExpr("Variable", SymbolicVariable("Main", 0, 0, 0), 0),    \* 1 local.left
       LeafExpr("Variable", SymbolicVariable("Main", 0, 0, 1), 0),    \* 2 local.middle
       LeafExpr("Variable", SymbolicVariable("Main", 0, 0, 2), 0),    \* 3 local.right
       LeafExpr("Variable", SymbolicVariable("Main", 0, 1, 0), 0),    \* 4 next.left
       LeafExpr("Variable", SymbolicVariable("Main", 0, 1, 1), 0),    \* 5 next.middle
       LeafExpr("Variable", SymbolicVariable("Main", 0, 1, 2), 0),    \* 6 next.right
       LeafExpr("Variable", SymbolicVariable("Public", 0, 0, 0), 0),  \* 7 a
       LeafExpr("Variable", SymbolicVariable("Public", 0, 0, 1), 0),  \* 8 b
       LeafExpr("Variable", SymbolicVariable("Public", 0, 0, 2), 0),  \* 9 x
       LeafExpr("IsFirstRow", NoVar, 0),                              \* 10
       LeafExpr("IsLastRow", NoVar, 0),                               \* 11
       LeafExpr("IsTransition", NoVar, 0),                            \* 12
       Expr("Sub", NoVar, 0, 1, 7, 1),      \* 13 local.left - a
       Expr("Mul", NoVar, 0, 10, 13, 2),    \* 14
       Expr("Sub", NoVar, 0, 2, 8, 1),      \* 15 local.middle - b
       Expr("Mul", NoVar, 0, 10, 15, 2),    \* 16
       Expr("Add", NoVar, 0, 1, 2, 1),      \* 17 local.left + local.middle
       Expr("Sub", NoVar, 0, 3, 17, 1),     \* 18
       Expr("Mul", NoVar, 0, 10, 18, 2),    \* 19
       Expr("Sub", NoVar, 0, 2, 4, 1),      \* 20 local.middle - next.left
       Expr("Mul", NoVar, 0, 12, 20, 1),    \* 21
       Expr("Sub", NoVar, 0, 3, 5, 1),      \* 22 local.right - next.middle
       Expr("Mul", NoVar, 0, 12, 22, 1),    \* 23
       Expr("Add", NoVar, 0, 2, 3, 1),      \* 24 local.middle + local.right
       Expr("Sub", NoVar, 0, 24, 6, 1),     \* 25
       Expr("Mul", NoVar, 0, 12, 25, 1),    \* 26
       Expr("Sub", NoVar, 0, 3, 9, 1),      \* 27 local.right - x
       Expr("Mul", NoVar, 0, 11, 27, 2) >>  \* 28

FibRoots == <<14, 16, 19, 21, 23, 26, 28>>

FibDag ==
    LET b == build_symbolic_expr_dag(FibArena, FibRoots)
    IN  [nodes |-> b.nodes, constraint_idx |-> b.constraint_idx]

\* Row r of the trace that starts from (a, b): (left, middle, right).
RECURSIVE generate_trace_row(_, _, _)
generate_trace_row(a, b, r) ==
    IF r = 0 THEN <<a, b, FAdd(a, b)>>
    ELSE LET prev == generate_trace_row(a, b, r - 1)
         IN  <<prev[2], prev[3], FAdd(prev[2], prev[3])>>

\* The loop of get_fib_number after i iterations: (a, b).
RECURSIVE FibLoop(_)
FibLoop(i) ==
    IF i = 0 THEN <<0, 1>>
    ELSE LET s == FibLoop(i - 1) IN <<s[2], s[1] + s[2]>>

get_fib_number(n) == FibLoop(n - 1)[2]

\* The public values that match the trace: a, b and the last `right`.
FibPublicValues(a, b) ==
    <<a, b, generate_trace_row(a, b, FibTraceHeight - 1)[3]>>

\* The evaluator on trace row r: the next row of the last row is row 0, and
\* the selectors are those of the trace domain.
FibRowEvaluator(a, b, r) ==
    LET local == generate_trace_row(a, b, r)
        next == generate_trace_row(a, b, (r + 1) % FibTraceHeight)
        flag(c) == <<IF c THEN 1 ELSE 0>>
    IN  [width |-> 1,
         preprocessed |-> [local |-> <<>>, next |-> <<>>, has_next |-> TRUE],
         partitioned_main |-> << [local |-> [c \in 1 .. 3 |-> <<local[c]>>],
                                  next |-> [c \in 1 .. 3 |-> <<next[c]>>],
                                  has_next |-> TRUE] >>,
         after_challenge |-> <<>>,
         challenges |-> <<>>,
         is_first_row |-> flag(r = 0),
         is_last_row |-> flag(r = FibTraceHeight - 1),
         is_transition |-> flag(r # FibTraceHeight - 1),
         public_values |-> FibPublicValues(a, b),
         exposed_values_after_challenge |-> <<>>]

InitFib ==
    /\ phase = "fib"
    /\ IdleDag /\ IdleEval /\ IdlePacked /\ IdleQuotient /\ IdleProve
    /\ IdleSerde
    /\ \E a \in Val, b \in Val : fib = [a |-> a, b |-> b, row |-> 0, values |-> <<>>]

\* The DAG evaluated on the next row of the trace: the values of the
\* constraint nodes of that row are recorded.
FibEvalRow ==
    /\ phase = "fib"
    /\ fib.row < FibTraceHeight
    /\ LET buf == eval_nodes_mut(FibRowEvaluator(fib.a, fib.b, fib.row),
                                 FibDag.nodes, <<>>)
       IN  fib' = [fib EXCEPT
                     !.row = @ + 1,
                     !.values = Append(@,
                         [k \in 1 .. Len(FibDag.constraint_idx) |->
                             BufGet(buf, FibDag.constraint_idx[k])])]
    /\ UNCHANGED <<phase, notFibVars>>

NextFib == FibEvalRow
SpecFib == InitFib /\ [][NextFib]_vars

\* C7: on the height-8 trace generated by the recurrence, with the matching
\* public values (for a = 0, b = 1 the third one is get_fib_number(n + 1)),
\* each of the seven constraints evaluates to zero at every row.
C7_FibConstraintsVanish ==
    phase = "fib" =>
        /\ Len(FibDag.constraint_idx) = 7
        /\ (fib.a = 0 /\ fib.b = 1) =>
              FibPublicValues(0, 1)[3] = get_fib_number(FibTraceHeight + 1) % P
        /\ \A r \in 1 .. Len(fib.values) :
              \A k \in 1 .. Len(fib.values[r]) : fib.values[r][k] = PEVal(<<0>>)

\* all eight rows of the trace of the test (a = 0, b = 1) were evaluated, the
\* last one against row 0 as its next row
C7_Witness ==
    /\ phase = "fib"
    /\ fib.a = 0 /\ fib.b = 1
    /\ fib.row = FibTraceHeight
    /\ Len(fib.values) = FibTraceHeight

(***************************************************************************)
(* compute_single_rap_quotient_values and parallelize_chunks.              *)
(***************************************************************************)
RECURSIVE Pow2(_)
Pow2(n) == IF n = 0 THEN 1 ELSE 2 * Pow2(n - 1)

\* A matrix of base field elements: rows are numbered from 0.
Matrix(height, width, values) ==
    [height |-> height, width |-> width, values |-> values]
MatrixGet(m, r, c) == m.values[r + 1][c + 1]

\* ceil(n / d)
DivCeil(n, d) == (n + d - 1) \div d

\* The scan of the constraints: the asserts on the matrices and on every
\* variable, and whether a next row is needed.
VariableInBounds(inp, var) ==
    CASE var.entry = "Preprocessed" ->
            /\ inp.preprocessed.some
            /\ var.index < inp.preprocessed.m.width
            /\ inp.preprocessed.m.height >= inp.quotient_size
      [] var.entry = "Main" ->
            /\ var.part_index < Len(inp.partitioned_main)
            /\ var.index < inp.partitioned_main[var.part_index + 1].width
      [] var.entry = "Public" -> var.index < Len(inp.public_values)
      [] var.entry = "Permutation" ->
            /\ inp.after_challenge # <<>>
            /\ var.index < inp.after_challenge[1].width \div D
      [] var.entry = "Challenge" ->
            /\ inp.challenges # <<>>
            /\ var.index < Len(inp.challenges[1])
      [] OTHER ->
            /\ inp.exposed_values_after_challenge # <<>>
            /\ var.index < Len(inp.exposed_values_after_challenge[1])

\* rotation after the first n nodes: the largest offset met, from 0.
MaxRotation(nodes, n) ==
    LET offsets ==
            {0} \cup { nodes[i].var.offset :
                         i \in { j \in 1 .. n :
                                   /\ nodes[j].tag = "Variable"
                                   /\ nodes[j].var.entry
                                        \in {"Preprocessed", "Main", "Permutation"} } }
    IN  CHOOSE m \in offsets : \A o \in offsets : o <= m

\* Variant: the scan does not look at the heights of the matrices.
ScanConstraintsNoHeights(inp) ==
    LET nodes == inp.constraints.nodes
    IN  [panicked |->
            \E i \in 1 .. Len(nodes) :
                /\ nodes[i].tag = "Variable"
                /\ ~VariableInBounds(inp, nodes[i].var),
         needs_next |-> MaxRotation(nodes, Len(nodes)) > 0]

\* Variant: the scan trusts the Challenge and Exposed indices.
ScanConstraintsTrusting(inp) ==
    LET nodes == inp.constraints.nodes
    IN  [panicked |->
            \/ \E i \in 1 .. Len(inp.partitioned_main) :
                  inp.partitioned_main[i].height < inp.quotient_size
            \/ \E i \in 1 .. Len(inp.after_challenge) :
                  inp.after_challenge[i].height < inp.quotient_size
            \/ \E i \in 1 .. Len(nodes) :
                  /\ nodes[i].tag = "Variable"
                  /\ nodes[i].var.entry \notin {"Challenge", "Exposed"}
                  /\ ~VariableInBounds(inp, nodes[i].var),
         needs_next |-> MaxRotation(nodes, Len(nodes)) > 0]

ScanConstraints(inp) ==
    LET nodes == inp.constraints.nodes
    IN  [panicked |->
            \/ \E i \in 1 .. Len(inp.partitioned_main) :
                  inp.partitioned_main[i].height < inp.quotient_size
            \/ \E i \in 1 .. Len(inp.after_challenge) :
                  inp.after_challenge[i].height < inp.quotient_size
            \/ \E i \in 1 .. Len(nodes) :
                  /\ nodes[i].tag = "Variable"
                  /\ ~VariableInBounds(inp, nodes[i].var),
         needs_next |-> MaxRotation(nodes, Len(nodes)) > 0]

QuotRowIdxContiguous(inp, cidx, row_idx, offset) ==
    (cidx * inp.trace_height + row_idx + offset) % inp.quotient_size

\* quot_row_idx: the row of the quotient domain that holds row
\* (row_idx + offset) of chunk cidx.
QuotRowIdx(inp, cidx, row_idx, offset) ==
    (cidx + (row_idx + offset) * inp.quotient_degree) % inp.quotient_size

\* PackedVal::from_fn(|offset| lde.get(wrapped_idx[offset], col)); a row at or
\* past the height has no value (RowsPast says what the read does).
PackRows(m, wrapped_idx, col) ==
    [j \in 1 .. Len(wrapped_idx) |->
        IF wrapped_idx[j] < m.height THEN MatrixGet(m, wrapped_idx[j], col) ELSE 0]

\* Some row_buf of `width` columns is filled from a row at or past the height
\* of the matrix: lde.get is a checked read, the batch stops there.
RowsPast(m, width, wrapped_idx) ==
    width > 0 /\ \E j \in 1 .. Len(wrapped_idx) : wrapped_idx[j] >= m.height

\* A view pair made without its next buffer whatever the scan found.
PackViewLocalOnly(m, width, row_idx_local, row_idx_next, needs_next) ==
    [local |-> [c \in 1 .. width |-> PackRows(m, row_idx_local, c - 1)],
     next |-> <<>>,
     has_next |-> FALSE]

\* new_view_pair and the packing of one base field matrix.
PackView(m, width, row_idx_local, row_idx_next, needs_next) ==
    [local |-> [c \in 1 .. width |-> PackRows(m, row_idx_local, c - 1)],
     next |-> IF needs_next
              THEN [c \in 1 .. width |-> PackRows(m, row_idx_next, c - 1)]
              ELSE <<>>,
     has_next |-> needs_next]

\* The packing of an after-challenge matrix: D base columns per element.
PackChallengeView(m, row_idx_local, row_idx_next, needs_next) ==
    LET elt(idx, col) == [i \in 1 .. D |-> PackRows(m, idx, col * D + (i - 1))]
    IN  [local |-> [c \in 1 .. (m.width \div D) |-> elt(row_idx_local, c - 1)],
         next |-> IF needs_next
                  THEN [c \in 1 .. (m.width \div D) |-> elt(row_idx_next, c - 1)]
                  ELSE <<>>,
         has_next |-> needs_next]

\* A next row taken as the adjacent row of the quotient domain, not the row
\* quotient_degree further.
RowIdxNextAdjacent(inp, cidx, row_idx) ==
    [j \in 1 .. inp.WIDTH |->
        (QuotRowIdx(inp, cidx, row_idx, j - 1) + 1) % inp.quotient_size]

\* row_idx_local and row_idx_next of the fat row that starts at row_idx.
RowIdxLocal(inp, cidx, row_idx) ==
    [j \in 1 .. inp.WIDTH |-> QuotRowIdx(inp, cidx, row_idx, j - 1)]
RowIdxNext(inp, cidx, row_idx) ==
    [j \in 1 .. inp.WIDTH |-> QuotRowIdx(inp, cidx, row_idx, j)]

\* The packing of the fat row reads a row at or past the height of a matrix.
BatchRowsPast(inp, cidx, row_idx) ==
    LET needs_next == ScanConstraints(inp).needs_next
        past(m, width) ==
            \/ RowsPast(m, width, RowIdxLocal(inp, cidx, row_idx))
            \/ needs_next /\ RowsPast(m, width, RowIdxNext(inp, cidx, row_idx))
    IN  \/ past(inp.preprocessed.m,
                IF inp.preprocessed.some THEN inp.preprocessed.m.width ELSE 0)
        \/ \E i \in 1 .. Len(inp.partitioned_main) :
              past(inp.partitioned_main[i], inp.partitioned_main[i].width)
        \/ \E i \in 1 .. Len(inp.after_challenge) :
              past(inp.after_challenge[i], inp.after_challenge[i].width \div D)

\* The ProverConstraintEvaluator of the fat row that starts at row_idx.
BatchEvaluator(inp, cidx, row_idx) ==
    LET needs_next == ScanConstraints(inp).needs_next
        row_idx_local == RowIdxLocal(inp, cidx, row_idx)
        row_idx_next == RowIdxNext(inp, cidx, row_idx)
    IN      [width |-> inp.WIDTH,
             preprocessed |->
                 PackView(inp.preprocessed.m,
                          IF inp.preprocessed.some THEN inp.preprocessed.m.width
                          ELSE 0,
                          row_idx_local, row_idx_next, needs_next),
             partitioned_main |->
                 [i \in 1 .. Len(inp.partitioned_main) |->
                     PackView(inp.partitioned_main[i], inp.partitioned_main[i].width,
                              row_idx_local, row_idx_next, needs_next)],
             after_challenge |->
                 [i \in 1 .. Len(inp.after_challenge) |->
                     PackChallengeView(inp.after_challenge[i], row_idx_local,
                                       row_idx_next, needs_next)],
             challenges |-> inp.challenges,
             is_first_row |->
                 [j \in 1 .. inp.WIDTH |-> inp.sels.is_first_row[row_idx_local[j] + 1]],
             is_last_row |->
                 [j \in 1 .. inp.WIDTH |-> inp.sels.is_last_row[row_idx_local[j] + 1]],
             is_transition |->
                 [j \in 1 .. inp.WIDTH |-> inp.sels.is_transition[row_idx_local[j] + 1]],
             public_values |-> inp.public_values,
             exposed_values_after_challenge |-> inp.exposed_values_after_challenge]

\* The body of the loop over fat rows up to `accumulator * inv_zeroifier`.
QuotientBatch(inp, cidx, row_idx, node_exprs) ==
    LET row_idx_local == RowIdxLocal(inp, cidx, row_idx)
        inv_zeroifier ==
            [j \in 1 .. inp.WIDTH |-> inp.sels.inv_zeroifier[row_idx_local[j] + 1]]
        past == BatchRowsPast(inp, cidx, row_idx)
        out == accumulate(BatchEvaluator(inp, cidx, row_idx), inp.constraints,
                          inp.alpha_powers, node_exprs)
    IN  IF past
        THEN [panicked |-> TRUE, undefined |-> FALSE, node_exprs |-> node_exprs,
              quotient |-> PCZero(inp.WIDTH)]
        ELSE [panicked |-> out.panicked,
              undefined |-> out.undefined,
              node_exprs |-> out.exprs,
              quotient |-> PCMulBase(out.accumulator, inv_zeroifier)]

\* A closure call f(slice, start_row_idx) of parallelize_chunks: slice_start
\* and len say which part of the column the slice is, fat_row counts the
\* iterations of the loop over chunks_mut(WIDTH) that are done.
Task(slice_start, len, start_row_idx) ==
    [slice_start |-> slice_start, len |-> len, start_row_idx |-> start_row_idx,
     fat_row |-> 0, node_exprs |-> <<>>]

TaskDone(inp, t) == t.fat_row = DivCeil(t.len, inp.WIDTH)

FatRowStepFirstLane(inp, cidx, col, t) ==
    LET row_idx == t.start_row_idx + t.fat_row * inp.WIDTH
        b == QuotientBatch(inp, cidx, row_idx, t.node_exprs)
        first == t.slice_start + t.fat_row * inp.WIDTH
        count == Min(inp.WIDTH, t.len - t.fat_row * inp.WIDTH)
    IN  [panicked |-> b.panicked,
         undefined |-> b.undefined,
         column |-> [i \in 1 .. Len(col) |->
                        IF i - 1 >= first /\ i - 1 < first + count
                        THEN PCLane(b.quotient, 1)
                        ELSE col[i]],
         task |-> [t EXCEPT !.fat_row = @ + 1, !.node_exprs = b.node_exprs]]

\* One iteration of the loop over the fat rows of a task:
\* [panicked, undefined, column, task].
FatRowStep(inp, cidx, col, t) ==
    LET row_idx == t.start_row_idx + t.fat_row * inp.WIDTH
        b == QuotientBatch(inp, cidx, row_idx, t.node_exprs)
        first == t.slice_start + t.fat_row * inp.WIDTH
        count == Min(inp.WIDTH, t.len - t.fat_row * inp.WIDTH)
    IN  [panicked |-> b.panicked,
         undefined |-> b.undefined,
         column |-> [i \in 1 .. Len(col) |->
                        IF i - 1 >= first /\ i - 1 < first + count
                        THEN PCLane(b.quotient, i - first)
                        ELSE col[i]],
         task |-> [t EXCEPT !.fat_row = @ + 1, !.node_exprs = b.node_exprs]]

ParallelizeChunksNoSplitPos(len, chunk_size, num_threads) ==
    IF num_threads = 0 THEN << Task(0, len, 0) >>
    ELSE
    LET total_iters == len \div chunk_size
        lo_slice_size == (total_iters \div num_threads) * chunk_size
        hi_slice_size == lo_slice_size + chunk_size
        cutoff_thread_idx == total_iters % num_threads
        split_pos == cutoff_thread_idx * hi_slice_size
        hi == IF cutoff_thread_idx # 0
              THEN [k \in 1 .. (split_pos \div hi_slice_size) |->
                       Task((k - 1) * hi_slice_size, hi_slice_size,
                            (k - 1) * hi_slice_size)]
              ELSE <<>>
        lo == IF lo_slice_size # 0
              THEN [k \in 1 .. ((len - split_pos) \div lo_slice_size) |->
                       Task(split_pos + (k - 1) * lo_slice_size, lo_slice_size,
                            (k - 1) * lo_slice_size)]
              ELSE <<>>
    IN  hi \o lo

\* A split into equal slices only: chunks_exact_mut(lo_slice_size) on the
\* whole slice, which leaves the remainder to nobody.
ParallelizeChunksDropRemainder(len, chunk_size, num_threads) ==
    IF num_threads = 0 THEN << Task(0, len, 0) >>
    ELSE
    LET total_iters == len \div chunk_size
        lo_slice_size == (total_iters \div num_threads) * chunk_size
    IN  IF lo_slice_size # 0
        THEN [k \in 1 .. Min(num_threads, len \div lo_slice_size) |->
                 Task((k - 1) * lo_slice_size, lo_slice_size,
                      (k - 1) * lo_slice_size)]
        ELSE <<>>

\* parallelize_chunks: the closure calls it makes on a slice of length len.
\* num_threads = 0 stands for a build without the "parallel" feature.
parallelize_chunks(len, chunk_size, num_threads) ==
    IF num_threads = 0 THEN << Task(0, len, 0) >>
    ELSE
    LET total_iters == len \div chunk_size
        lo_slice_size == (total_iters \div num_threads) * chunk_size
        hi_slice_size == lo_slice_size + chunk_size
        cutoff_thread_idx == total_iters % num_threads
        split_pos == cutoff_thread_idx * hi_slice_size
        hi == IF cutoff_thread_idx # 0
              THEN [k \in 1 .. (split_pos \div hi_slice_size) |->
                       Task((k - 1) * hi_slice_size, hi_slice_size,
                            (k - 1) * hi_slice_size)]
              ELSE <<>>
        lo == IF lo_slice_size # 0
              THEN [k \in 1 .. ((len - split_pos) \div lo_slice_size) |->
                       Task(split_pos + (k - 1) * lo_slice_size, lo_slice_size,
                            split_pos + (k - 1) * lo_slice_size)]
              ELSE <<>>
    IN  hi \o lo

(***************************************************************************)
(* SpecQuotient: one call of compute_single_rap_quotient_values, the       *)
(* closures of each chunk running in any interleaving.                     *)
(***************************************************************************)
MaxLogHeight == 2
MaxLogDegree == 1
MaxLogWidth == 2
MaxThreads == 3
NumSeeds == 2

\* Constraints over the main and preprocessed traces that read the next row.
QuotientArenaMain ==
    << LeafExpr("Variable", SymbolicVariable("Main", 0, 0, 0), 0),          \* 1
       LeafExpr("Variable", SymbolicVariable("Main", 0, 1, 0), 0),          \* 2
       LeafExpr("Variable", SymbolicVariable("Main", 0, 0, 1), 0),          \* 3
       LeafExpr("Variable", SymbolicVariable("Preprocessed", 0, 0, 0), 0),  \* 4
       LeafExpr("Variable", SymbolicVariable("Public", 0, 0, 0), 0),        \* 5
       LeafExpr("IsFirstRow", NoVar, 0),                                    \* 6
       LeafExpr("IsTransition", NoVar, 0),                                  \* 7
       LeafExpr("IsLastRow", NoVar, 0),                                     \* 8
       Expr("Sub", NoVar, 0, 1, 5, 1),      \* 9
       Expr("Mul", NoVar, 0, 6, 9, 2),      \* 10
       Expr("Add", NoVar, 0, 1, 3, 1),      \* 11
       Expr("Sub", NoVar, 0, 2, 11, 1),     \* 12
       Expr("Mul", NoVar, 0, 7, 12, 1),     \* 13
       Expr("Mul", NoVar, 0, 3, 4, 2),      \* 14
       Expr("Mul", NoVar, 0, 8, 14, 3) >>   \* 15

\* Constraints of a challenge phase.
QuotientArenaPerm ==
    << LeafExpr("Variable", SymbolicVariable("Permutation", 0, 0, 0), 0),   \* 1
       LeafExpr("Variable", SymbolicVariable("Permutation", 0, 1, 0), 0),   \* 2
       LeafExpr("Variable", SymbolicVariable("Challenge", 0, 0, 0), 0),     \* 3
       LeafExpr("Variable", SymbolicVariable("Main", 0, 0, 0), 0),          \* 4
       LeafExpr("Variable", SymbolicVariable("Exposed", 0, 0, 0), 0),       \* 5
       LeafExpr("IsLastRow", NoVar, 0),                                     \* 6
       LeafExpr("Constant", NoVar, 2),                                      \* 7
       Expr("Mul", NoVar, 0, 4, 3, 1),      \* 8
       Expr("Add", NoVar, 0, 1, 8, 1),      \* 9
       Expr("Sub", NoVar, 0, 2, 9, 1),      \* 10
       Expr("Sub", NoVar, 0, 1, 5, 1),      \* 11
       Expr("Mul", NoVar, 0, 6, 11, 2),     \* 12
       Expr("Sub", NoVar, 0, 7, 3, 0) >>    \* 13

\* Constraints that read the local row only.
QuotientArenaLocal ==
    << LeafExpr("Variable", SymbolicVariable("Main", 0, 0, 0), 0),          \* 1
       LeafExpr("Variable", SymbolicVariable("Main", 0, 0, 1), 0),          \* 2
       LeafExpr("Constant", NoVar, 1),                                      \* 3
       Expr("Mul", NoVar, 0, 1, 2, 2),      \* 4
       Expr("Sub", NoVar, 0, 4, 3, 2),      \* 5
       Expr("Neg", NoVar, 0, 1, 0, 1),      \* 6
       Expr("Add", NoVar, 0, 6, 2, 1) >>    \* 7

QuotientArenas == <<QuotientArenaMain, QuotientArenaPerm, QuotientArenaLocal>>
QuotientRoots == << <<10, 13, 15>>, <<10, 12, 13>>, <<5, 7>> >>

\* A constraint that reads the row two steps ahead, which no view holds.
QuotientArenaFar ==
    << LeafExpr("Variable", SymbolicVariable("Main", 0, 0, 0), 0),          \* 1
       LeafExpr("Variable", SymbolicVariable("Main", 0, 2, 1), 0),          \* 2
       Expr("Sub", NoVar, 0, 2, 1, 1) >>    \* 3
FarDag == Len(QuotientArenas) + 1

QuotientDag(i) ==
    LET b == build_symbolic_expr_dag((QuotientArenas \o <<QuotientArenaFar>>)[i],
                                     (QuotientRoots \o << <<3>> >>)[i])
    IN  [nodes |-> b.nodes, constraint_idx |-> b.constraint_idx]

SampleMatrix(seed, s, height, width) ==
    Matrix(height, width,
           [r \in 1 .. height |->
               [c \in 1 .. width |-> (seed * s + (r - 1) * (c + s) + c * c) % P]])

SampleColumn(seed, s, height) ==
    [r \in 1 .. height |-> (seed + s + (r - 1) * (s + 1)) % P]

\* What a caller may have got wrong in the arguments: a missing matrix or
\* vector, one narrower than the constraints need, or no challenge phase.
Defects ==
    {"no_preprocessed", "narrow_main", "no_public", "no_phase", "empty_perm",
     "no_challenges", "no_exposed"}

\* A matrix handed in with fewer rows than the quotient domain has.
CapacityDefects == {"short_preprocessed", "short_main", "short_perm"}

\* The arguments of the call that the choice q stands for.
QuotientInputs(q) ==
    LET trace_height == Pow2(q.log_trace_height)
        quotient_degree == Pow2(q.log_quotient_degree)
        quotient_size == trace_height * quotient_degree
        WIDTH == Pow2(q.log_width)
        constraints == QuotientDag(q.constraints)
    IN  [constraints |-> constraints,
         trace_height |-> trace_height,
         quotient_degree |-> quotient_degree,
         quotient_size |-> quotient_size,
         WIDTH |-> WIDTH,
         num_threads |-> q.num_threads,
         preprocessed |-> [some |-> q.defect # "no_preprocessed",
                           m |-> SampleMatrix(q.seed, 1,
                                              IF q.defect = "short_preprocessed"
                                              THEN quotient_size - 1
                                              ELSE quotient_size, 1)],
         partitioned_main |->
             << SampleMatrix(q.seed, 2,
                             IF q.defect = "short_main" THEN quotient_size - 1
                             ELSE quotient_size,
                             IF q.defect = "narrow_main" THEN 1 ELSE 2) >>,
         after_challenge |->
             IF q.defect = "no_phase" THEN <<>>
             ELSE << SampleMatrix(q.seed, 3,
                                  IF q.defect = "short_perm" THEN quotient_size - 1
                                  ELSE quotient_size,
                                  IF q.defect = "empty_perm" THEN 0 ELSE D) >>,
         challenges |->
             CASE q.defect = "no_phase" -> <<>>
               [] q.defect = "no_challenges" -> << <<>> >>
               [] OTHER ->
                    << << PCFromF(<<(q.seed + 2) % P, (q.seed + 3) % P>>, WIDTH) >> >>,
         alpha |-> SampleAlpha(q.seed),
         alpha_powers |-> AlphaPowers(SampleAlpha(q.seed),
                                      Len(constraints.constraint_idx), WIDTH),
         public_values |->
             IF q.defect = "no_public" THEN <<>> ELSE << (q.seed + 1) % P >>,
         exposed_values_after_challenge |->
             CASE q.defect = "no_phase" -> <<>>
               [] q.defect = "no_exposed" -> << <<>> >>
               [] OTHER ->
                    << << PCFromF(<<(2 * q.seed) % P, (q.seed + 4) % P>>, WIDTH) >> >>,
         sels |-> [is_first_row |-> SampleColumn(q.seed, 1, quotient_size),
                   is_last_row |-> SampleColumn(q.seed, 2, quotient_size),
                   is_transition |-> SampleColumn(q.seed, 3, quotient_size),
                   inv_zeroifier |-> SampleColumn(q.seed, 4, quotient_size)]]

InitQuotient ==
    /\ phase = "scan"
    /\ IdleDag /\ IdleEval /\ IdlePacked /\ IdleFib /\ IdleProve
    /\ IdleSerde
    /\ \E d \in 1 .. Len(QuotientArenas), seed \in 1 .. NumSeeds,
          h \in 0 .. MaxLogHeight, q \in 0 .. MaxLogDegree, w \in 0 .. MaxLogWidth,
          n \in 0 .. MaxThreads :
          qin = [constraints |-> d, seed |-> seed, log_trace_height |-> h,
                 log_quotient_degree |-> q, log_width |-> w, num_threads |-> n,
                 defect |-> "none"]
    /\ chunk_idx = 0
    /\ column = <<>>
    /\ tasks = <<>>
    /\ quotient_chunks = <<>>

\* The asserts and the scan at the head of the function.
Scan ==
    /\ phase = "scan"
    /\ phase' = IF ScanConstraints(QuotientInputs(qin)).panicked THEN "panicked"
                ELSE "map"
    /\ UNCHANGED <<quotientVars, notQuotientVars>>

\* The map over qc_domains reaches a chunk: the zeroed column and the closures
\* that parallelize_chunks spawns on it.
StartChunk ==
    /\ phase = "map"
    /\ \E inp \in {QuotientInputs(qin)} :
          /\ chunk_idx < inp.quotient_degree
          /\ column' = [i \in 1 .. inp.trace_height |-> EFZero]
          /\ tasks' = parallelize_chunks(inp.trace_height,
                                         Min(inp.trace_height, inp.WIDTH),
                                         inp.num_threads)
    /\ phase' = "scope"
    /\ UNCHANGED <<qin, chunk_idx, quotient_chunks, notQuotientVars>>

\* One closure handles its next fat row.
TaskStep ==
    /\ phase = "scope"
    /\ \E t \in 1 .. Len(tasks), inp \in {QuotientInputs(qin)} :
          /\ ~TaskDone(inp, tasks[t])
          /\ \E r \in {FatRowStep(inp, chunk_idx, column, tasks[t])} :
                IF r.panicked
                THEN phase' = "panicked" /\ UNCHANGED <<column, tasks>>
                ELSE /\ phase' = IF r.undefined THEN "undefined" ELSE "scope"
                     /\ column' = r.column
                     /\ tasks' = [tasks EXCEPT ![t] = r.task]
    /\ UNCHANGED <<qin, chunk_idx, quotient_chunks, notQuotientVars>>

\* rayon::scope returns when every closure has returned; the chunk is done.
JoinScope ==
    /\ phase = "scope"
    /\ \E inp \in {QuotientInputs(qin)} :
          /\ \A t \in 1 .. Len(tasks) : TaskDone(inp, tasks[t])
          /\ phase' = IF chunk_idx + 1 = inp.quotient_degree THEN "done" ELSE "map"
    /\ quotient_chunks' = Append(quotient_chunks, column)
    /\ chunk_idx' = chunk_idx + 1
    /\ tasks' = <<>>
    /\ column' = <<>>
    /\ UNCHANGED <<qin, notQuotientVars>>

NextQuotient == Scan \/ StartChunk \/ TaskStep \/ JoinScope
SpecQuotient == InitQuotient /\ [][NextQuotient]_vars

\* The evaluator of a single row i of the quotient domain: its next row is
\* quotient_degree rows further, cyclically.
RowEvaluator(inp, i) ==
    LET nxt == (i + inp.quotient_degree) % inp.quotient_size
        view(m) == [local |-> [c \in 1 .. m.width |-> <<MatrixGet(m, i, c - 1)>>],
                    next |-> [c \in 1 .. m.width |-> <<MatrixGet(m, nxt, c - 1)>>],
                    has_next |-> TRUE]
        ext(m) ==
            [local |-> [c \in 1 .. (m.width \div D) |->
                           [k \in 1 .. D |-> <<MatrixGet(m, i, (c - 1) * D + k - 1)>>]],
             next |-> [c \in 1 .. (m.width \div D) |->
                           [k \in 1 .. D |-> <<MatrixGet(m, nxt, (c - 1) * D + k - 1)>>]],
             has_next |-> TRUE]
        lane1(pcs) == [k \in 1 .. Len(pcs) |-> PCFromF(PCLane(pcs[k], 1), 1)]
    IN  [width |-> 1,
         preprocessed |-> view(inp.preprocessed.m),
         partitioned_main |->
             [k \in 1 .. Len(inp.partitioned_main) |-> view(inp.partitioned_main[k])],
         after_challenge |->
             [k \in 1 .. Len(inp.after_challenge) |-> ext(inp.after_challenge[k])],
         challenges |-> [k \in 1 .. Len(inp.challenges) |-> lane1(inp.challenges[k])],
         is_first_row |-> <<inp.sels.is_first_row[i + 1]>>,
         is_last_row |-> <<inp.sels.is_last_row[i + 1]>>,
         is_transition |-> <<inp.sels.is_transition[i + 1]>>,
         public_values |-> inp.public_values,
         exposed_values_after_challenge |->
             [k \in 1 .. Len(inp.exposed_values_after_challenge) |->
                 lane1(inp.exposed_values_after_challenge[k])]]

\* acc(x) * inv_Z_H(x) at row i of the quotient domain.
QuotientAt(inp, i) ==
    EFMul(WeightedSum(RowEvaluator(inp, i), inp.constraints, inp.alpha, 1,
                      Len(inp.constraints.constraint_idx)),
          EFFromBase(inp.sels.inv_zeroifier[i + 1]))

\* C6: row r of chunk c holds the alpha-folded constraint accumulator at row
\* c + r * quotient_degree of the quotient domain times inv_zeroifier there.
C6_QuotientValues ==
    phase \in {"map", "scope", "done"} =>
        LET inp == QuotientInputs(qin)
        IN  \A c \in 1 .. Len(quotient_chunks) :
               \A r \in 1 .. Len(quotient_chunks[c]) :
                   quotient_chunks[c][r]
                     = QuotientAt(inp, (c - 1) + (r - 1) * inp.quotient_degree)

\* two chunks of four rows were written, packed two rows at a time, from
\* constraints that read the next row, and some value is not zero
C6_Witness ==
    /\ phase = "done"
    /\ qin.constraints = 1
    /\ qin.log_trace_height = 2 /\ qin.log_quotient_degree = 1 /\ qin.log_width = 1
    /\ Len(quotient_chunks) = 2
    /\ \E r \in 1 .. 4 : quotient_chunks[2][r] # EFZero

\* f(v, 0) on the whole column of chunk cidx: the first n fat rows; the loop
\* over chunks_mut(WIDTH) ends with the last fat row.
RECURSIVE ClosureOnWholeColumn(_, _, _)
ClosureOnWholeColumn(inp, cidx, n) ==
    IF n = 0
    THEN [column |-> [i \in 1 .. inp.trace_height |-> EFZero],
          task |-> Task(0, inp.trace_height, 0)]
    ELSE LET prev == ClosureOnWholeColumn(inp, cidx, n - 1)
         IN  IF TaskDone(inp, prev.task) THEN prev
             ELSE LET r == FatRowStep(inp, cidx, prev.column, prev.task)
                  IN  [column |-> r.column, task |-> r.task]

\* C10: whatever the number of threads and the interleaving of the closures,
\* every finished chunk equals the column that a single closure call on the
\* whole column produces.
C10_ParallelDeterminism ==
    phase \in {"map", "scope", "done"} =>
        LET inp == QuotientInputs(qin)
        IN  \A c \in 1 .. Len(quotient_chunks) :
               quotient_chunks[c]
                 = ClosureOnWholeColumn(inp, c - 1,
                       DivCeil(inp.trace_height, inp.WIDTH)).column

\* three threads shared four fat rows unevenly and the call returned
C10_Witness ==
    /\ phase = "done"
    /\ qin.num_threads = 3
    /\ qin.log_trace_height = 2 /\ qin.log_width = 0
    /\ Len(quotient_chunks) = Pow2(qin.log_quotient_degree)
    /\ \E r \in 1 .. 4 : quotient_chunks[1][r] # quotient_chunks[1][1]

\* The call with the same arguments and one lane per batch.
ScalarInputs == QuotientInputs([qin EXCEPT !.log_width = 0])

\* C11: the chunk columns do not depend on the SIMD lane count, also when it
\* exceeds trace_height: every finished chunk has trace_height rows and row r
\* holds what the one-lane run computes for row r.
C11_SimdWidthIndependent ==
    phase \in {"map", "scope", "done"} =>
        LET inp == ScalarInputs
        IN  /\ \A c \in 1 .. Len(quotient_chunks) :
                  /\ Len(quotient_chunks[c]) = inp.trace_height
                  /\ quotient_chunks[c]
                       = ClosureOnWholeColumn(inp, c - 1, inp.trace_height).column
            /\ phase = "scope" => Len(column) = inp.trace_height

\* four lanes on a trace of two rows: the call returned two chunks of two
\* rows whose values differ
C11_Witness ==
    /\ phase = "done"
    /\ qin.log_width = 2 /\ qin.log_trace_height = 1 /\ qin.log_quotient_degree = 1
    /\ Len(quotient_chunks) = 2
    /\ Len(quotient_chunks[1]) = 2
    /\ quotient_chunks[1][1] # quotient_chunks[1][2]

\* C15: to_symbolic_expressions makes exactly one Arc per DAG node, and
\* every place where the DAG uses a node's index holds that node's Arc: a
\* rebuilt parent holds as child the reference made for the child's node,
\* so a reference shared in the original roots (one node in the DAG) is one
\* and the same reference wherever the rebuilt trees use it.
C15_RebuildShares ==
    phase = "rebuilt" =>
        /\ ~rebuilt.panicked
        /\ Len(rebuilt.arena) = Len(dag.nodes)
        /\ \A i \in 1 .. Len(dag.nodes) :
              LET n == dag.nodes[i]
              IN  /\ n.tag \in InternalTags => rebuilt.arena[i].x = n.left_idx
                  /\ n.tag \in BinaryTags => rebuilt.arena[i].y = n.right_idx
        /\ \A a \in ReachRoots : \A b \in ReachRoots :
              /\ arena[a].tag \in InternalTags
              /\ arena[b].tag \in InternalTags
              /\ arena[a].x = arena[b].x
              => rebuilt.arena[IdxOf(a)].x = rebuilt.arena[IdxOf(b)].x
        /\ \A a \in ReachRoots : \A b \in ReachRoots :
              /\ arena[a].tag \in BinaryTags
              /\ arena[b].tag \in InternalTags
              /\ arena[a].y = arena[b].x
              => rebuilt.arena[IdxOf(a)].y = rebuilt.arena[IdxOf(b)].x
        /\ \A k \in 1 .. Len(exprs) : rebuilt.exprs[k] = IdxOf(exprs[k])

\* one reference held by two different parents, both of them roots
C15_Witness ==
    /\ phase = "rebuilt"
    /\ Len(exprs) = 2
    /\ exprs[1] # exprs[2]
    /\ arena[exprs[1]].tag = "Neg"
    /\ arena[exprs[2]].tag = "Mul"
    /\ arena[exprs[1]].x = arena[exprs[2]].y
    /\ rebuilt.arena[rebuilt.exprs[1]].x = rebuilt.arena[rebuilt.exprs[2]].y

(***************************************************************************)
(* One prove call on the CPU device: the RAP phase, the quotient           *)
(* evaluation and commitment, and the opening.  The challenger and the PCS *)
(* are black boxes; `events` logs every call made to them in program       *)
(* order.  Quotient values are kept symbolic: value <<i, r>> is row r of   *)
(* the quotient polynomial of AIR i on its quotient domain.                *)
(***************************************************************************)
MaxAirs == 2        \* AIRs in one proof

Event(op, what) == [op |-> op, what |-> what]

\* RapPhaseSeq::partially_prove samples the phase challenges when the proof
\* has a challenge phase; the permutation traces are then committed.
PartiallyProveEvents(with_phase) ==
    IF with_phase
    THEN <<Event("sample", "phase_challenge"),
           Event("pcs_commit", "after_challenge")>>
    ELSE <<>>

\* Variant: alpha is drawn again for every AIR.
QuotientValuesEventsResample(i) ==
    <<Event("sample", "alpha"), Event("quotient_values", i)>>

\* One iteration of the map inside QuotientCommitter::quotient_values: it
\* has no access to the challenger.
QuotientValuesEvents(i) == <<Event("quotient_values", i)>>

\* single_rap_quotient_values for AIR i (0-based).
SingleQuotientData(i, air) ==
    LET quotient_degree == Pow2(air.log_quotient_degree)
        quotient_size == Pow2(air.log_trace_height) * quotient_degree
    IN  [quotient_degree |-> quotient_degree,
         quotient_domain |-> [air |-> i, coset |-> -1,
                              size |-> quotient_size],
         quotient_values |-> [r \in 1 .. quotient_size |-> <<i, r - 1>>]]

\* Chunk c holds rows c, c + num_chunks, c + 2 * num_chunks, ...
split_evals(num_chunks, evals) ==
    [c \in 1 .. num_chunks |->
        [k \in 1 .. (Len(evals) \div num_chunks) |->
            evals[(k - 1) * num_chunks + c]]]

split_domains(domain, num_chunks) ==
    [c \in 1 .. num_chunks |->
        [air |-> domain.air, coset |-> c - 1,
         size |-> domain.size \div num_chunks]]

\* Variant: the chunks of one AIR come out last coset first.
SingleQuotientDataSplitReversed(d) ==
    LET evals == split_evals(d.quotient_degree, d.quotient_values)
        domains == split_domains(d.quotient_domain, d.quotient_degree)
    IN  [c \in 1 .. d.quotient_degree |->
            [domain |-> domains[d.quotient_degree + 1 - c],
             chunk |-> evals[d.quotient_degree + 1 - c]]]

SingleQuotientDataSplit(d) ==
    LET evals == split_evals(d.quotient_degree, d.quotient_values)
        domains == split_domains(d.quotient_domain, d.quotient_degree)
    IN  [c \in 1 .. d.quotient_degree |->
            [domain |-> domains[c], chunk |-> evals[c]]]

RECURSIVE QuotientDataSplit(_)
QuotientDataSplit(inner) ==
    IF inner = <<>> THEN <<>>
    ELSE SingleQuotientDataSplit(Head(inner)) \o QuotientDataSplit(Tail(inner))

log2_strict_usize(n) == CHOOSE k \in 0 .. n : Pow2(k) = n

\* QuotientCommitter::commit: the argument of its pcs.commit call and the
\* log_trace_heights it returns.
QuotientCommit(inner) ==
    LET chunks == QuotientDataSplit(inner)
    IN  [quotient_domains_and_chunks |->
            [c \in 1 .. Len(chunks) |-> <<chunks[c].domain, chunks[c].chunk>>],
         log_trace_heights |->
            [c \in 1 .. Len(chunks) |-> log2_strict_usize(chunks[c].domain.size)]]

AirShapes ==
    [log_trace_height : 0 .. MaxLogHeight,
     log_quotient_degree : 0 .. MaxLogDegree]

InitProve ==
    /\ phase = "prove"
    /\ IdleDag /\ IdleEval /\ IdlePacked /\ IdleQuotient /\ IdleFib
    /\ IdleSerde
    /\ \E n \in 1 .. MaxAirs : airs \in [1 .. n -> AirShapes]
    /\ has_phase \in BOOLEAN
    /\ events = <<>> /\ air_idx = 0
    /\ quotient_data = <<>> /\ pcs_commits = <<>> /\ quotient_pcs = <<>>
    /\ IdleViews

\* CpuDevice::partially_prove.
PartiallyProve ==
    /\ phase = "prove"
    /\ events' = events \o PartiallyProveEvents(has_phase)
    /\ phase' = "partially_proved"
    /\ UNCHANGED <<airs, has_phase, air_idx, quotient_data, pcs_commits,
                   quotient_pcs>>
    /\ UNCHANGED <<viewVars, notProveVars>>

\* CpuDevice::eval_and_commit_quotient up to the construction of the
\* committer.
SampleAlphaStep ==
    /\ phase = "partially_proved"
    /\ events' = Append(events, Event("sample", "alpha"))
    /\ air_idx' = 0
    /\ phase' = "quotient_values"
    /\ UNCHANGED <<airs, has_phase, quotient_data, pcs_commits, quotient_pcs>>
    /\ UNCHANGED <<viewVars, notProveVars>>

\* QuotientCommitter::quotient_values, one AIR of the izip per step.
QuotientValuesStep ==
    /\ phase = "quotient_values"
    /\ air_idx < Len(airs)
    /\ quotient_data' = Append(quotient_data,
                               SingleQuotientData(air_idx, airs[air_idx + 1]))
    /\ events' = events \o QuotientValuesEvents(air_idx)
    /\ air_idx' = air_idx + 1
    /\ UNCHANGED <<phase, airs, has_phase, pcs_commits, quotient_pcs>>
    /\ UNCHANGED <<viewVars, notProveVars>>

\* QuotientCommitter::commit, the tail of eval_and_commit_quotient.
CommitQuotient ==
    /\ phase = "quotient_values"
    /\ air_idx = Len(airs)
    /\ \E r \in {QuotientCommit(quotient_data)} :
          /\ pcs_commits' = Append(pcs_commits, r.quotient_domains_and_chunks)
          /\ quotient_pcs' = [log_trace_heights |-> r.log_trace_heights]
    /\ events' = Append(events, Event("pcs_commit", "quotient"))
    /\ phase' = "quotient_committed"
    /\ UNCHANGED <<airs, has_phase, air_idx, quotient_data>>
    /\ UNCHANGED <<viewVars, notProveVars>>

\* The caller of the device observes the quotient commitment.
ObserveQuotientCommit ==
    /\ phase = "quotient_committed"
    /\ events' = Append(events, Event("observe", "quotient"))
    /\ phase' = "quotient_observed"
    /\ UNCHANGED <<airs, has_phase, air_idx, quotient_data, pcs_commits,
                   quotient_pcs>>
    /\ UNCHANGED <<viewVars, notProveVars>>

\* CpuDevice::open: zeta is drawn first, then the opener runs.
Open ==
    /\ phase = "quotient_observed"
    /\ events' = events \o <<Event("sample", "zeta"), Event("pcs_open", "all")>>
    /\ phase' = "opened"
    /\ UNCHANGED <<airs, has_phase, air_idx, quotient_data, pcs_commits,
                   quotient_pcs>>
    /\ UNCHANGED <<viewVars, notProveVars>>

NextProve ==
    \/ PartiallyProve
    \/ SampleAlphaStep
    \/ QuotientValuesStep
    \/ CommitQuotient
    \/ ObserveQuotientCommit
    \/ Open

SpecProve == InitProve /\ [][NextProve]_vars

EventIdx(e) == {i \in 1 .. Len(events) : events[i] = e}

RECURSIVE ChunkOffset(_)
ChunkOffset(a) ==
    IF a = 0 THEN 0
    ELSE ChunkOffset(a - 1) + Pow2(airs[a].log_quotient_degree)

\* C13: QuotientCommitter::commit makes exactly one pcs.commit call; its
\* argument lists, AIR after AIR in input order, the quotient_degree chunks
\* of each AIR in coset order (chunk c of AIR a holds rows c, c + qd, ... of
\* that AIR's quotient values on coset c of its quotient domain), and
\* log_trace_heights has one entry per chunk in that same order.
C13_CommitOrder ==
    phase \in {"quotient_committed", "quotient_observed", "opened"} =>
        /\ Len(pcs_commits) = 1
        /\ Len(pcs_commits[1]) = ChunkOffset(Len(airs))
        /\ Len(quotient_pcs.log_trace_heights) = ChunkOffset(Len(airs))
        /\ \A a \in 0 .. Len(airs) - 1 :
              LET qd == Pow2(airs[a + 1].log_quotient_degree)
                  height == Pow2(airs[a + 1].log_trace_height)
              IN  \A c \in 0 .. qd - 1 :
                     LET pos == ChunkOffset(a) + c + 1
                     IN  /\ pcs_commits[1][pos][1]
                              = [air |-> a, coset |-> c, size |-> height]
                         /\ pcs_commits[1][pos][2]
                              = [k \in 1 .. height |-> <<a, c + (k - 1) * qd>>]
                         /\ quotient_pcs.log_trace_heights[pos]
                              = airs[a + 1].log_trace_height

C13_Witness ==
    /\ phase = "quotient_committed"
    /\ Len(airs) = 2
    /\ airs[1].log_quotient_degree = 1 /\ airs[1].log_trace_height = 1
    /\ airs[2].log_quotient_degree = 1 /\ airs[2].log_trace_height = 2
    /\ Len(pcs_commits[1]) = 4
    /\ pcs_commits[1][2][2] = <<<<0, 1>>, <<0, 3>>>>
    /\ quotient_pcs.log_trace_heights = <<1, 1, 2, 2>>

(***************************************************************************)
(* Serialize / Deserialize of SymbolicExpressionDag as derived by serde,   *)
(* through a compact binary format: an enum is its variant index followed  *)
(* by its fields in declaration order, a usize is UsizeBytes bytes, little *)
(* endian, a Vec is its length followed by its elements.  Node indices are *)
(* positions in the model and 0-based on the wire.                         *)
(***************************************************************************)
MaxSerNodes == 2        \* nodes of an encoded DAG
MaxSerConstraints == 2  \* constraints of an encoded DAG
UsizeBytes == 2
Byte == 256

RECURSIVE EncodeUint(_, _)
EncodeUint(n, width) ==
    IF width = 0 THEN <<>>
    ELSE <<n % Byte>> \o EncodeUint(n \div Byte, width - 1)

RECURSIVE DecodeUint(_, _, _)
DecodeUint(bytes, pos, width) ==
    IF width = 0 THEN 0
    ELSE bytes[pos] + Byte * DecodeUint(bytes, pos + 1, width - 1)

EncodeUsize(n) == EncodeUint(n, UsizeBytes)

\* [ok, value, pos]: the value read at pos and the position after it.
DecodeUsize(bytes, pos) ==
    IF pos + UsizeBytes - 1 > Len(bytes)
    THEN [ok |-> FALSE, value |-> 0, pos |-> pos]
    ELSE [ok |-> TRUE, value |-> DecodeUint(bytes, pos, UsizeBytes),
          pos |-> pos + UsizeBytes]

NodeVariants ==
    <<"Variable", "IsFirstRow", "IsLastRow", "IsTransition", "Constant",
      "Add", "Sub", "Neg", "Mul">>
EntryVariants ==
    <<"Preprocessed", "Main", "Permutation", "Public", "Challenge", "Exposed">>

VariantIndex(variants, tag) ==
    (CHOOSE i \in 1 .. Len(variants) : variants[i] = tag) - 1

EncodeVariable(var) ==
    <<VariantIndex(EntryVariants, var.entry)>>
    \o (CASE var.entry = "Main" ->
                EncodeUsize(var.part_index) \o EncodeUsize(var.offset)
          [] var.entry \in {"Preprocessed", "Permutation"} ->
                EncodeUsize(var.offset)
          [] OTHER -> <<>>)
    \o EncodeUsize(var.index)

\* Variant: Neg is written without its degree_multiple.
EncodeNodeNoDegree(node) ==
    <<VariantIndex(NodeVariants, node.tag)>>
    \o (CASE node.tag = "Variable" -> EncodeVariable(node.var)
          [] node.tag = "Constant" -> <<node.c>>
          [] node.tag \in BinaryTags ->
                EncodeUsize(node.left_idx - 1) \o EncodeUsize(node.right_idx - 1)
                    \o EncodeUsize(node.degree_multiple)
          [] node.tag = "Neg" -> EncodeUsize(node.left_idx - 1)
          [] OTHER -> <<>>)

EncodeNode(node) ==
    <<VariantIndex(NodeVariants, node.tag)>>
    \o (CASE node.tag = "Variable" -> EncodeVariable(node.var)
          [] node.tag = "Constant" -> <<node.c>>
          [] node.tag \in BinaryTags ->
                EncodeUsize(node.left_idx - 1) \o EncodeUsize(node.right_idx - 1)
                    \o EncodeUsize(node.degree_multiple)
          [] node.tag = "Neg" ->
                EncodeUsize(node.left_idx - 1) \o EncodeUsize(node.degree_multiple)
          [] OTHER -> <<>>)

RECURSIVE EncodeNodes(_)
EncodeNodes(nodes) ==
    IF nodes = <<>> THEN <<>>
    ELSE EncodeNode(Head(nodes)) \o EncodeNodes(Tail(nodes))

RECURSIVE EncodeIndices(_)
EncodeIndices(idx) ==
    IF idx = <<>> THEN <<>>
    ELSE EncodeUsize(Head(idx) - 1) \o EncodeIndices(Tail(idx))

\* Serialize for SymbolicExpressionDag.
EncodeDag(d) ==
    EncodeUsize(Len(d.nodes)) \o EncodeNodes(d.nodes)
    \o EncodeUsize(Len(d.constraint_idx)) \o EncodeIndices(d.constraint_idx)

DecodeFail(pos) == [ok |-> FALSE, value |-> <<>>, pos |-> pos]

\* Reads `count` usize values from pos on; fails when the bytes run out.
RECURSIVE DecodeUsizes(_, _, _)
DecodeUsizes(bytes, pos, count) ==
    IF count = 0 THEN [ok |-> TRUE, value |-> <<>>, pos |-> pos]
    ELSE LET h == DecodeUsize(bytes, pos)
         IN  IF ~h.ok THEN DecodeFail(pos)
             ELSE LET t == DecodeUsizes(bytes, h.pos, count - 1)
                  IN  IF ~t.ok THEN DecodeFail(pos)
                      ELSE [ok |-> TRUE, value |-> <<h.value>> \o t.value,
                            pos |-> t.pos]

DecodeVariable(bytes, pos) ==
    IF pos > Len(bytes) \/ bytes[pos] >= Len(EntryVariants) THEN DecodeFail(pos)
    ELSE LET entry == EntryVariants[bytes[pos] + 1]
             fields == CASE entry = "Main" -> 3
                         [] entry \in {"Preprocessed", "Permutation"} -> 2
                         [] OTHER -> 1
             f == DecodeUsizes(bytes, pos + 1, fields)
         IN  IF ~f.ok THEN DecodeFail(pos)
             ELSE [ok |-> TRUE, pos |-> f.pos,
                   value |->
                     CASE entry = "Main" ->
                            SymbolicVariable(entry, f.value[1], f.value[2],
                                             f.value[3])
                       [] entry \in {"Preprocessed", "Permutation"} ->
                            SymbolicVariable(entry, 0, f.value[1], f.value[2])
                       [] OTHER -> SymbolicVariable(entry, 0, 0, f.value[1])]

\* Deserialize for SymbolicExpressionNode.
DecodeNode(bytes, pos) ==
    IF pos > Len(bytes) \/ bytes[pos] >= Len(NodeVariants) THEN DecodeFail(pos)
    ELSE LET tag == NodeVariants[bytes[pos] + 1]
         IN  CASE tag = "Variable" ->
                    LET v == DecodeVariable(bytes, pos + 1)
                    IN  IF ~v.ok THEN DecodeFail(pos)
                        ELSE [ok |-> TRUE, pos |-> v.pos,
                              value |-> Node(tag, v.value, 0, 0, 0, 0)]
               [] tag = "Constant" ->
                    IF pos + 1 > Len(bytes) \/ bytes[pos + 1] \notin Val
                    THEN DecodeFail(pos)
                    ELSE [ok |-> TRUE, pos |-> pos + 2,
                          value |-> Node(tag, NoVar, bytes[pos + 1], 0, 0, 0)]
               [] tag \in BinaryTags ->
                    LET f == DecodeUsizes(bytes, pos + 1, 3)
                    IN  IF ~f.ok THEN DecodeFail(pos)
                        ELSE [ok |-> TRUE, pos |-> f.pos,
                              value |-> Node(tag, NoVar, 0, f.value[1] + 1,
                                             f.value[2] + 1, f.value[3])]
               [] tag = "Neg" ->
                    LET f == DecodeUsizes(bytes, pos + 1, 2)
                    IN  IF ~f.ok THEN DecodeFail(pos)
                        ELSE [ok |-> TRUE, pos |-> f.pos,
                              value |-> Node(tag, NoVar, 0, f.value[1] + 1, 0,
                                             f.value[2])]
               [] OTHER -> [ok |-> TRUE, pos |-> pos + 1,
                            value |-> Node(tag, NoVar, 0, 0, 0, 0)]

RECURSIVE DecodeNodes(_, _, _)
DecodeNodes(bytes, pos, count) ==
    IF count = 0 THEN [ok |-> TRUE, value |-> <<>>, pos |-> pos]
    ELSE LET h == DecodeNode(bytes, pos)
         IN  IF ~h.ok THEN DecodeFail(pos)
             ELSE LET t == DecodeNodes(bytes, h.pos, count - 1)
                  IN  IF ~t.ok THEN DecodeFail(pos)
                      ELSE [ok |-> TRUE, value |-> <<h.value>> \o t.value,
                            pos |-> t.pos]

\* Deserialize for SymbolicExpressionDag: the DAG, or an error.
DecodeDag(bytes) ==
    LET n == DecodeUsize(bytes, 1)
        nodes == DecodeNodes(bytes, n.pos, n.value)
        m == DecodeUsize(bytes, nodes.pos)
        idx == DecodeUsizes(bytes, m.pos, m.value)
    IN  IF ~n.ok \/ ~nodes.ok \/ ~m.ok \/ ~idx.ok \/ idx.pos # Len(bytes) + 1
        THEN [ok |-> FALSE, dag |-> EmptyDag]
        ELSE [ok |-> TRUE,
              dag |-> [nodes |-> nodes.value,
                       constraint_idx |-> [k \in 1 .. Len(idx.value) |->
                                              idx.value[k] + 1]]]

\* The nodes that may stand at position i of an encoded DAG.
SerNodes(i) ==
    { Node("Variable", SymbolicVariable("Main", 1, 0, 2), 0, 0, 0, 0),
      Node("Variable", SymbolicVariable("Permutation", 0, 1, 3), 0, 0, 0, 0),
      Node("Variable", SymbolicVariable("Public", 0, 0, 1), 0, 0, 0, 0),
      Node("IsFirstRow", NoVar, 0, 0, 0, 0),
      Node("IsTransition", NoVar, 0, 0, 0, 0),
      Node("Constant", NoVar, 3, 0, 0, 0) }
    \cup { Node(tag, NoVar, 0, l, r, 2) :
             tag \in BinaryTags, l \in 1 .. i - 1, r \in 1 .. i - 1 }
    \cup { Node("Neg", NoVar, 0, l, 0, 1) : l \in 1 .. i - 1 }

SerDags ==
    UNION { { [nodes |-> ns, constraint_idx |-> cs] :
                ns \in { f \in [1 .. n -> SerNodes(n)] :
                           \A i \in 1 .. n : f[i] \in SerNodes(i) },
                cs \in UNION { [1 .. m -> 1 .. n] : m \in 0 .. MaxSerConstraints } }
            : n \in 1 .. MaxSerNodes }

InitSerde ==
    /\ phase = "dag"
    /\ IdleDag /\ IdleEval /\ IdlePacked /\ IdleQuotient /\ IdleFib
    /\ IdleProve
    /\ \E d \in SerDags : ser = [dag |-> d, bytes |-> <<>>, decoded |-> <<>>]

Serialize ==
    /\ phase = "dag"
    /\ ser' = [ser EXCEPT !.bytes = EncodeDag(ser.dag)]
    /\ phase' = "encoded"
    /\ UNCHANGED notSerdeVars

Deserialize ==
    /\ phase = "encoded"
    /\ ser' = [ser EXCEPT !.decoded = DecodeDag(ser.bytes)]
    /\ phase' = "decoded"
    /\ UNCHANGED notSerdeVars

NextSerde == Serialize \/ Deserialize
SpecSerde == InitSerde /\ [][NextSerde]_vars

OpExpr(ar, tag, x, y) ==
    Expr(tag, NoVar, 0, x, IF tag = "Neg" THEN 0 ELSE y,
         OpDegree(tag, ExprDegree(ar[x]), ExprDegree(ar[IF tag = "Neg" THEN x ELSE y])))

\* The expressions of test_symbolic_expressions_dag with the degrees the
\* test expects; `expr` is Constant(1) * Main{part_index 1, offset 2}[3].
TestArena ==
    << LeafExpr("IsFirstRow", NoVar, 0),
       LeafExpr("IsLastRow", NoVar, 0),
       Expr("Mul", NoVar, 0, 1, 2, 2),
       LeafExpr("Constant", NoVar, 1),
       Expr("Add", NoVar, 0, 3, 4, 2),
       LeafExpr("IsFirstRow", NoVar, 0),
       LeafExpr("IsLastRow", NoVar, 0),
       Expr("Mul", NoVar, 0, 6, 7, 2),
       Expr("Add", NoVar, 0, 5, 8, 2),
       LeafExpr("Constant", NoVar, 1),
       LeafExpr("Variable", SymbolicVariable("Main", 1, 2, 3), 0),
       Expr("Mul", NoVar, 0, 10, 11, 1),
       Expr("Add", NoVar, 0, 9, 12, 2),
       Expr("Mul", NoVar, 0, 10, 11, 1),
       Expr("Mul", NoVar, 0, 10, 11, 1),
       Expr("Mul", NoVar, 0, 14, 15, 2) >>

TestRoots == <<13, 16>>

\* The DAG the test asserts, child indices as positions.
TestExpectedDag ==
    [nodes |->
        << Node("IsFirstRow", NoVar, 0, 0, 0, 0),
           Node("IsLastRow", NoVar, 0, 0, 0, 0),
           Node("Mul", NoVar, 0, 1, 2, 2),
           Node("Constant", NoVar, 1, 0, 0, 0),
           Node("Add", NoVar, 0, 3, 4, 2),
           Node("Mul", NoVar, 0, 1, 2, 2),
           Node("Add", NoVar, 0, 5, 6, 2),
           Node("Variable", SymbolicVariable("Main", 1, 2, 3), 0, 0, 0, 0),
           Node("Mul", NoVar, 0, 4, 8, 1),
           Node("Add", NoVar, 0, 7, 9, 2),
           Node("Mul", NoVar, 0, 9, 9, 2) >>,
     constraint_idx |-> <<10, 11>>]

\* Add{Constant(c), Add{l1, l2}}
FoldArena(c, l1, l2) ==
    LET leaves == <<LeafExpr("Constant", NoVar, c), l1, l2>>
        inner == Append(leaves, OpExpr(leaves, "Add", 2, 3))
    IN  Append(inner, OpExpr(inner, "Add", 1, 4))

\* (l1 op l2) + (l1 op l2), every operand allocated anew
TwinArena(tag, l1, l2) ==
    LET leaves == <<l1, l2>>
        first == Append(leaves, OpExpr(leaves, tag, 1, 2))
        again == first \o <<l1, l2>>
        second == Append(again, OpExpr(again, tag, 4, 5))
    IN  Append(second, OpExpr(second, "Add", 3, 6))

\* e + e for e = l1 op l2: the two operands are separate allocations of
\* clones of e, which hold the references e holds.
CloneArena(tag, l1, l2) ==
    LET leaves == <<l1, l2>>
        e == OpExpr(leaves, tag, 1, 2)
        both == leaves \o <<e, e>>
    IN  Append(both, OpExpr(both, "Add", 3, 4))

SampleLeaves == {DagLeaves[i] : i \in 1 .. Len(DagLeaves)}

SampleBuilds ==
    {[arena |-> TestArena, exprs |-> TestRoots]}
    \cup {[arena |-> FoldArena(c, l1, l2), exprs |-> <<5>>] :
             c \in Val, l1 \in SampleLeaves, l2 \in SampleLeaves}
    \cup {[arena |-> TwinArena(tag, l1, l2), exprs |-> <<7>>] :
             tag \in BinaryTags, l1 \in SampleLeaves, l2 \in SampleLeaves}
    \cup {[arena |-> CloneArena(tag, l1, l2), exprs |-> <<5>>] :
             tag \in BinaryTags, l1 \in SampleLeaves, l2 \in SampleLeaves}

InitSample ==
    /\ phase = "sample"
    /\ \E b \in SampleBuilds : arena = b.arena /\ exprs = b.exprs
    /\ dag = EmptyDag /\ expr_to_idx = <<>>
    /\ rebuilt = NoRebuilt /\ folder = NoFolder
    /\ IdleEval /\ IdlePacked /\ IdleQuotient /\ IdleFib /\ IdleProve
    /\ IdleSerde

BuildSample ==
    /\ phase = "sample"
    /\ \E b \in {build_symbolic_expr_dag(arena, exprs)} :
          /\ dag' = [nodes |-> b.nodes, constraint_idx |-> b.constraint_idx]
          /\ expr_to_idx' = b.expr_to_idx
    /\ phase' = "built"
    /\ UNCHANGED <<arena, exprs, rebuilt, folder, notDagVars>>

NextSample == BuildSample \/ Rebuild
SpecSample == InitSample /\ [][NextSample]_vars

IsFold(c, l1, l2) == arena = FoldArena(c, l1, l2) /\ exprs = <<5>>

IsTheFold ==
    IsFold(1, LeafExpr("IsFirstRow", NoVar, 0), LeafExpr("IsLastRow", NoVar, 0))

\* Nothing was folded: both sums and the constant are nodes of the DAG.
NoFolding ==
    /\ dag.nodes[dag.constraint_idx[1]].tag = "Add"
    /\ dag.nodes[dag.nodes[dag.constraint_idx[1]].left_idx]
          = Node("Constant", NoVar, arena[1].c, 0, 0, 0)
    /\ dag.nodes[dag.nodes[dag.constraint_idx[1]].right_idx].tag = "Add"

\* C16 as stated: the DAG of Add{Constant(1), Add{IsFirstRow, IsLastRow}} has
\* exactly 4 nodes and nothing was folded.
C16_FourNodes ==
    DagBuilt /\ IsTheFold => Len(dag.nodes) = 4 /\ NoFolding

\* C16: the DAG of Add{Constant(1), Add{IsFirstRow, IsLastRow}} has exactly 5
\* nodes, one per distinct subexpression (the constant, the two selectors and
\* the two sums), and nothing is folded; in general Add{Constant(c),
\* Add{l1, l2}} has two Add nodes and one node per distinct leaf value.
C16_FiveNodes ==
    /\ DagBuilt /\ IsTheFold =>
          /\ dag.nodes = << Node("Constant", NoVar, 1, 0, 0, 0),
                            Node("IsFirstRow", NoVar, 0, 0, 0, 0),
                            Node("IsLastRow", NoVar, 0, 0, 0, 0),
                            Node("Add", NoVar, 0, 2, 3, 1),
                            Node("Add", NoVar, 0, 1, 4, 1) >>
          /\ dag.constraint_idx = <<5>>
    /\ \A c \in Val, l1 \in SampleLeaves, l2 \in SampleLeaves :
          DagBuilt /\ IsFold(c, l1, l2) =>
              /\ NoFolding
              /\ Len(dag.nodes)
                    = 2 + Cardinality({LeafExpr("Constant", NoVar, c), l1, l2})

C16_Witness ==
    /\ phase = "built"
    /\ IsTheFold
    /\ Len(dag.nodes) = 5
    /\ dag.nodes[5].tag = "Add" /\ dag.nodes[4].tag = "Add"

Independent(a, b) == Reach(arena, a) \cap Reach(arena, b) = {}
ValueEqual(a, b) == ExprTree(arena, a) = ExprTree(arena, b)

\* C17 as stated: two value-equal subtrees built independently always get
\* separate node indices.
C17_NeverByValue ==
    DagBuilt =>
        \A a \in ReachRoots : \A b \in ReachRoots :
            a # b /\ Independent(a, b) /\ ValueEqual(a, b) => IdxOf(a) # IdxOf(b)

\* C17: two value-equal operator subtrees built independently (no reference
\* in common) get separate node indices; two value-equal leaves get one
\* node wherever they were allocated; and two operator expressions of the
\* same variant and degree that hold the same references get one node even
\* when they are separate allocations.  The test input builds to the DAG
\* the test asserts.
C17_MergeByKey ==
    DagBuilt =>
        /\ \A a \in ReachRoots : \A b \in ReachRoots :
              /\ a # b /\ Independent(a, b) /\ ValueEqual(a, b)
                  /\ arena[a].tag \in InternalTags
                  => IdxOf(a) # IdxOf(b)
              /\ arena[a].tag \in LeafTags /\ arena[a] = arena[b]
                  => IdxOf(a) = IdxOf(b)
              /\ arena[a].tag \in InternalTags /\ arena[a] = arena[b]
                  => IdxOf(a) = IdxOf(b)
        /\ arena = TestArena => dag = TestExpectedDag

\* the test input: the two IsFirstRow * IsLastRow products are nodes 3 and 6
\* over the same two leaf nodes, and the three clones of `expr` are node 9
C17_Witness ==
    /\ phase = "built"
    /\ arena = TestArena
    /\ IdxOf(3) = 3 /\ IdxOf(8) = 6
    /\ IdxOf(1) = IdxOf(6)
    /\ IdxOf(12) = 9 /\ IdxOf(14) = 9 /\ IdxOf(15) = 9

\* The degree rule of the operators over the degrees of the child nodes,
\* for a given degree of the leaves.
DegreeRule(leaf_degree(_)) ==
    \A i \in 1 .. Len(dag.nodes) :
        LET n == dag.nodes[i]
            deg(j) == IF dag.nodes[j].tag \in LeafTags
                      THEN leaf_degree(dag.nodes[j])
                      ELSE dag.nodes[j].degree_multiple
        IN  /\ n.tag \in {"Add", "Sub"} =>
                  n.degree_multiple = Max(deg(n.left_idx), deg(n.right_idx))
            /\ n.tag = "Mul" =>
                  n.degree_multiple = deg(n.left_idx) + deg(n.right_idx)
            /\ n.tag = "Neg" => n.degree_multiple = deg(n.left_idx)

StatedLeafDegree(n) == IF n.tag = "Variable" THEN 1 ELSE 0
BuiltLeafDegree(n) == LeafDegree(n.tag, n.var)

MaxCorruptNodes == 3

\* Variant: the child indices of all nodes are validated before the loop.
RebuildLoopValidated(d, n) ==
    IF \E i \in 1 .. n :
          \/ d.nodes[i].tag \in InternalTags /\ d.nodes[i].left_idx \notin 1 .. i - 1
          \/ d.nodes[i].tag \in BinaryTags /\ d.nodes[i].right_idx \notin 1 .. i - 1
    THEN [panicked |-> TRUE, arena |-> <<>>]
    ELSE [panicked |-> FALSE,
          arena |-> [i \in 1 .. n |-> NodeToExpr(d.nodes[i])]]

\* The loop of to_symbolic_expressions over the first n nodes: exprs[idx] is
\* a checked index into the Arcs pushed so far, so the loop panics at the
\* first node whose child is not among them; `arena` is what had been pushed.
RECURSIVE RebuildLoop(_, _)
RebuildLoop(d, n) ==
    IF n = 0 THEN [panicked |-> FALSE, arena |-> <<>>]
    ELSE LET prev == RebuildLoop(d, n - 1)
             node == d.nodes[n]
             pushed == Len(prev.arena)
         IN  IF prev.panicked THEN prev
             ELSE IF \/ node.tag \in InternalTags /\ node.left_idx \notin 1 .. pushed
                     \/ node.tag \in BinaryTags /\ node.right_idx \notin 1 .. pushed
                  THEN [panicked |-> TRUE, arena |-> prev.arena]
                  ELSE [panicked |-> FALSE,
                        arena |-> Append(prev.arena, NodeToExpr(node))]

\* What a read past the end of the expression buffer can do: the loop goes
\* on with whatever the memory holds, or the process is stopped at the read.
\* `stop` is the node at which the process is stopped, 0 if it is not.
AccumulateOutcomes(ev, constraints, alpha_powers) ==
    LET whole == accumulate(ev, constraints, alpha_powers, <<>>)
        past == {i \in 1 .. Len(constraints.nodes) :
                    ~NodeReadsInRange(constraints.nodes[i], Len(constraints.nodes))}
    IN  {[stop |-> 0, out |-> whole]}
        \cup {[stop |-> i,
               out |-> [panicked |-> TRUE, undefined |-> FALSE,
                        exprs |-> SubSeq(whole.exprs, 1, i - 1),
                        accumulator |-> PCZero(ev.width)]] :
                 i \in {j \in past : \A k \in past : j <= k}}

CorruptLeaves ==
    { Node("Variable", SymbolicVariable("Main", 0, 0, 0), 0, 0, 0, 0),
      Node("Constant", NoVar, 2, 0, 0, 0) }

\* Nodes for position i of an array of n nodes: children are earlier nodes
\* or the index just past the array.
CorruptNodes(i, n) ==
    CorruptLeaves
    \cup { Node("Mul", NoVar, 0, l, r, 1) :
             l \in (1 .. i - 1) \cup {n + 1}, r \in (1 .. i - 1) \cup {n + 1} }
    \cup { Node("Neg", NoVar, 0, l, 0, 1) : l \in (1 .. i - 1) \cup {n + 1} }

CorruptDags ==
    UNION { { [nodes |-> ns, constraint_idx |-> [k \in 1 .. n |-> k]] :
                ns \in { f \in [1 .. n -> CorruptNodes(n, n)] :
                           /\ \A i \in 1 .. n : f[i] \in CorruptNodes(i, n)
                           /\ \E i \in 1 .. n : ~NodeReadsInRange(f[i], n) } }
            : n \in 1 .. MaxCorruptNodes }

InitCorrupt ==
    /\ phase = "corrupt"
    /\ dag \in CorruptDags
    /\ arena = <<>> /\ exprs = <<>> /\ expr_to_idx = <<>>
    /\ rebuilt = NoRebuilt /\ folder = NoFolder
    /\ IdleEval /\ IdlePacked /\ IdleQuotient /\ IdleFib /\ IdleProve
    /\ IdleSerde

\* dag.to_symbolic_expressions()
RebuildCorrupt ==
    /\ phase = "corrupt"
    /\ \E r \in {RebuildLoop(dag, Len(dag.nodes))} :
          rebuilt' = [panicked |-> r.panicked, arena |-> r.arena,
                      exprs |-> IF r.panicked THEN <<>> ELSE dag.constraint_idx]
    /\ phase' = "rebuilt"
    /\ UNCHANGED <<arena, exprs, dag, expr_to_idx, folder, notDagVars>>

\* evaluator.accumulate(constraints, &alpha_powers, &mut node_exprs)
AccumulateCorrupt ==
    /\ phase = "corrupt"
    /\ \E k \in 1 .. NumSamples :
          \E o \in AccumulateOutcomes(SampleEvaluator(k), dag,
                       AlphaPowers(SampleAlpha(k), Len(dag.constraint_idx),
                                   EvalLanes)) :
             acc' = [sample |-> k, alpha |-> SampleAlpha(k), stop |-> o.stop,
                     out |-> o.out]
    /\ phase' = "accumulated"
    /\ UNCHANGED <<dag, notEvalVars>>

NextCorrupt == RebuildCorrupt \/ AccumulateCorrupt
SpecCorrupt == InitCorrupt /\ [][NextCorrupt]_vars

\* The first node holding a child index past the node array.
FirstPast ==
    CHOOSE i \in 1 .. Len(dag.nodes) :
        /\ ~NodeReadsInRange(dag.nodes[i], Len(dag.nodes))
        /\ \A j \in 1 .. i - 1 : NodeReadsInRange(dag.nodes[j], Len(dag.nodes))

MaxScanLog == 1     \* log sizes and thread counts of the calls with defects

InitScan ==
    /\ phase = "scan"
    /\ IdleDag /\ IdleEval /\ IdlePacked /\ IdleFib /\ IdleProve
    /\ IdleSerde
    /\ \E d \in 1 .. Len(QuotientArenas), h \in 0 .. MaxScanLog,
          q \in 0 .. MaxScanLog, w \in 0 .. MaxScanLog, n \in 0 .. MaxScanLog,
          defect \in Defects \cup {"none"} :
          qin = [constraints |-> d, seed |-> 1, log_trace_height |-> h,
                 log_quotient_degree |-> q, log_width |-> w, num_threads |-> n,
                 defect |-> defect]
    /\ chunk_idx = 0
    /\ column = <<>>
    /\ tasks = <<>>
    /\ quotient_chunks = <<>>

SpecScan == InitScan /\ [][NextQuotient]_vars

\* Some Variable node of the DAG cannot be resolved in the arguments.
Unresolved(inp) ==
    \E i \in 1 .. Len(inp.constraints.nodes) :
        LET node == inp.constraints.nodes[i]
            var == node.var
            no_phase == /\ inp.after_challenge = <<>>
                        /\ inp.challenges = <<>>
                        /\ inp.exposed_values_after_challenge = <<>>
        IN  /\ node.tag = "Variable"
            /\ \/ /\ var.entry = "Preprocessed"
                  /\ var.index >= (IF inp.preprocessed.some
                                   THEN inp.preprocessed.m.width ELSE 0)
               \/ /\ var.entry = "Main"
                  /\ var.index >= inp.partitioned_main[var.part_index + 1].width
               \/ /\ var.entry = "Permutation"
                  /\ ~no_phase
                  /\ var.index >= inp.after_challenge[1].width
               \/ /\ var.entry = "Public"
                  /\ var.index >= Len(inp.public_values)
               \/ /\ var.entry = "Challenge"
                  /\ ~no_phase
                  /\ var.index >= Len(inp.challenges[1])
               \/ /\ var.entry = "Exposed"
                  /\ ~no_phase
                  /\ var.index >= Len(inp.exposed_values_after_challenge[1])
               \/ /\ var.entry \in {"Permutation", "Challenge", "Exposed"}
                  /\ no_phase

\* C20: when some Variable node cannot be resolved (a Preprocessed, Main or
\* Permutation column index at or past the matrix width, a Public, Challenge
\* or Exposed index at or past its vector length, or a Permutation, Challenge
\* or Exposed reference without a challenge phase) the call aborts in its
\* scan: no chunk is started and no row batch is evaluated.
C20_ScanAborts ==
    phase # "scan" /\ Unresolved(QuotientInputs(qin)) =>
        /\ phase = "panicked"
        /\ chunk_idx = 0
        /\ column = <<>>
        /\ tasks = <<>>
        /\ quotient_chunks = <<>>

\* a challenge-phase DAG evaluated without a challenge phase
C20_Witness ==
    /\ phase = "panicked"
    /\ qin.constraints = 2
    /\ qin.defect = "no_phase"
    /\ Unresolved(QuotientInputs(qin))

(***************************************************************************)
(* compute_single_rap_quotient_values on constraints that read two rows    *)
(* ahead and on matrices shorter than the quotient domain.                 *)
(***************************************************************************)
MaxGuardLog == 1    \* log sizes and thread counts of these calls

InitGuard ==
    /\ phase = "scan"
    /\ IdleDag /\ IdleEval /\ IdlePacked /\ IdleFib /\ IdleProve
    /\ IdleSerde
    /\ \E d \in 1 .. FarDag, h \in 0 .. MaxGuardLog,
          q \in 0 .. MaxGuardLog, w \in 0 .. MaxGuardLog, n \in 0 .. MaxGuardLog,
          defect \in CapacityDefects \cup {"none"} :
          qin = [constraints |-> d, seed |-> 1, log_trace_height |-> h,
                 log_quotient_degree |-> q, log_width |-> w, num_threads |-> n,
                 defect |-> defect]
    /\ chunk_idx = 0
    /\ column = <<>>
    /\ tasks = <<>>
    /\ quotient_chunks = <<>>

SpecGuard == InitGuard /\ [][NextQuotient]_vars

\* The call panicked in the asserts and the scan at its head: no chunk was
\* started and no row batch was evaluated.
ScanAborted ==
    /\ phase = "panicked"
    /\ chunk_idx = 0
    /\ column = <<>>
    /\ tasks = <<>>
    /\ quotient_chunks = <<>>

\* Some variable of a trace matrix has a row offset above 1.
HasFarOffset(inp) ==
    \E i \in 1 .. Len(inp.constraints.nodes) :
        LET node == inp.constraints.nodes[i]
        IN  /\ node.tag = "Variable"
            /\ node.var.entry \in {"Preprocessed", "Main", "Permutation"}
            /\ node.var.offset > 1

\* C21 as stated: a DAG with a row offset above 1 is rejected by the scan,
\* before any row batch is evaluated.
C21_FarOffsetRejectedByScan ==
    phase # "scan" /\ HasFarOffset(QuotientInputs(qin)) => ScanAborted

\* C21: the scan only takes the maximum of the offsets, so a DAG with a row
\* offset above 1 passes it unless another assert fails; the call then panics
\* in ViewPair::get while the first row batch of some closure of chunk 0 is
\* evaluated: no batch completes, no value is written, no chunk is returned.
C21_FarOffsetPanicsInFirstBatch ==
    LET inp == QuotientInputs(qin)
    IN  HasFarOffset(inp) =>
            IF ScanConstraints(inp).panicked
            THEN phase # "scan" => ScanAborted
            ELSE /\ phase \in {"scan", "map", "scope", "panicked"}
                 /\ chunk_idx = 0
                 /\ quotient_chunks = <<>>
                 /\ \A t \in 1 .. Len(tasks) : tasks[t].fat_row = 0
                 /\ \A r \in 1 .. Len(column) : column[r] = EFZero
                 /\ phase = "panicked" => tasks # <<>>

\* the scan let the offset-2 constraint through and the first batch panicked
C21_Witness ==
    /\ phase = "panicked"
    /\ qin.constraints = FarDag
    /\ qin.defect = "none"
    /\ HasFarOffset(QuotientInputs(qin))
    /\ tasks # <<>>

\* Some supplied matrix has fewer rows than the quotient domain.
ShortMain(inp) ==
    \E i \in 1 .. Len(inp.partitioned_main) :
        inp.partitioned_main[i].height < inp.quotient_size
ShortAfterChallenge(inp) ==
    \E i \in 1 .. Len(inp.after_challenge) :
        inp.after_challenge[i].height < inp.quotient_size
ShortPreprocessed(inp) ==
    inp.preprocessed.some /\ inp.preprocessed.m.height < inp.quotient_size
HasPreprocessedVar(inp) ==
    \E i \in 1 .. Len(inp.constraints.nodes) :
        /\ inp.constraints.nodes[i].tag = "Variable"
        /\ inp.constraints.nodes[i].var.entry = "Preprocessed"

Builds == {"debug", "release"}

\* accumulate as the build compiles it: the debug_assert! on the length of
\* alpha_powers exists only with debug assertions on; without them the zip
\* stops at the shorter side.
AccumulateBuild(build, ev, constraints, alpha_powers, node_exprs) ==
    IF build = "debug" /\ Len(alpha_powers) < Len(constraints.constraint_idx)
    THEN [panicked |-> TRUE, undefined |-> FALSE, exprs |-> node_exprs,
          accumulator |-> PCZero(ev.width)]
    ELSE accumulate(ev, constraints, alpha_powers, node_exprs)

\* alpha.powers().take(n) without the reverse.
LegacyAlphaPowersIncreasing(alpha, n, w) ==
    [i \in 1 .. n |-> PCFromF(EFPow(alpha, i - 1), w)]

\* The legacy alpha_powers: alpha.powers().take(n), then reverse(): highest
\* power first.
LegacyAlphaPowers(alpha, n, w) ==
    [i \in 1 .. n |-> PCFromF(EFPow(alpha, n - i), w)]

\* The legacy accumulate: the fold over the first n pairs of
\* alpha_powers.iter().zip(&constraints.constraint_idx).
RECURSIVE LegacyAccumulateLoop(_, _, _, _, _)
LegacyAccumulateLoop(alpha_powers, constraint_idx, evaluated_nodes, w, n) ==
    IF n = 0 THEN PCZero(w)
    ELSE AccumulateTerm(
             LegacyAccumulateLoop(alpha_powers, constraint_idx, evaluated_nodes,
                                  w, n - 1),
             alpha_powers[n], evaluated_nodes[constraint_idx[n]])

LegacyAccumulate(alpha_powers, constraint_idx, evaluated_nodes, w) ==
    LegacyAccumulateLoop(alpha_powers, constraint_idx, evaluated_nodes, w,
                         Min(Len(alpha_powers), Len(constraint_idx)))

\* The buffer a worker holds when a batch starts: empty before its first
\* batch, afterwards what the batch of sample `prev` wrote.
BufferBefore(prev, nodes) ==
    IF prev = 0 THEN <<>> ELSE eval_nodes_mut(SampleEvaluator(prev), nodes, <<>>)

\* One batch: build and alpha_powers.len() are the caller's, the buffer is the
\* worker's.
AccumulateFold ==
    /\ phase = "sealed"
    /\ \E k \in 1 .. NumSamples, build \in Builds, prev \in 0 .. NumSamples,
          m \in 0 .. Len(dag.constraint_idx) + 1 :
          \E out \in {AccumulateBuild(build, SampleEvaluator(k), dag,
                                      AlphaPowers(SampleAlpha(k), m, EvalLanes),
                                      BufferBefore(prev, dag.nodes))} :
             acc' = [sample |-> k, alpha |-> SampleAlpha(k), build |-> build,
                     prev |-> prev, num_powers |-> m, out |-> out,
                     legacy |->
                         IF \/ out.panicked
                            \/ \E i \in 1 .. Len(out.exprs) : ~PEGood(out.exprs[i])
                         THEN PCZero(EvalLanes)
                         ELSE LegacyAccumulate(
                                  LegacyAlphaPowers(SampleAlpha(k),
                                      Len(dag.constraint_idx), EvalLanes),
                                  dag.constraint_idx, out.exprs, EvalLanes)]
    /\ phase' = "accumulated"
    /\ UNCHANGED <<dag, notEvalVars>>

NextFold == AddLeafNode \/ AddOpNode \/ Seal \/ AccumulateFold
SpecFold == InitEval /\ [][NextFold]_vars

\* C23: accumulate panics whenever alpha_powers has fewer entries than the DAG
\* has constraints, so no accumulator with a constraint missing is returned.
C23_ShortAlphaPanics ==
    (phase = "accumulated" /\ acc.num_powers < Len(dag.constraint_idx)) =>
        acc.out.panicked

\* Lane j of every node value, lifted to the extension field.
LaneValues(node_exprs, j) ==
    [i \in 1 .. Len(node_exprs) |-> PCLane(PELift(node_exprs[i]), j)]

\* The verifier's fold of lane j: from zero, accumulator := accumulator * alpha
\* + value for each constraint in constraint_idx order.
VerifierLaneFold(alpha, node_exprs, constraint_idx, j) ==
    VerifierFold([accumulator |-> EFZero, alpha |-> alpha],
                 LaneValues(node_exprs, j), constraint_idx,
                 Len(constraint_idx)).accumulator

\* C27: on the same DAG, node values and alpha, the CPU accumulate with
\* increasing powers, the legacy accumulate with the powers reversed and the
\* verifier's fold return the same accumulator in every lane.
C27_ThreeFoldsAgree ==
    (/\ phase = "accumulated"
     /\ acc.num_powers = Len(dag.constraint_idx)
     /\ ~acc.out.panicked /\ ~acc.out.undefined) =>
        \A j \in 1 .. EvalLanes :
            /\ PCLane(acc.out.accumulator, j) = PCLane(acc.legacy, j)
            /\ PCLane(acc.out.accumulator, j)
                  = VerifierLaneFold(acc.alpha, acc.out.exprs,
                                     dag.constraint_idx, j)

\* two constraints of different value were folded by the three folds
C27_Witness ==
    /\ phase = "accumulated"
    /\ acc.num_powers = 2 /\ Len(dag.constraint_idx) = 2
    /\ ~acc.out.panicked /\ ~acc.out.undefined
    /\ acc.out.exprs[dag.constraint_idx[1]] # acc.out.exprs[dag.constraint_idx[2]]
    /\ acc.out.exprs[dag.constraint_idx[2]].kind = "Challenge"
    /\ acc.legacy # PCZero(EvalLanes)

\* C28: the buffer a batch starts with does not matter: the batch returns what
\* it returns on an empty buffer, and on an empty buffer no slot is read
\* before the same pass wrote it.
C28_NoStaleRead ==
    (phase = "accumulated" /\ ~acc.out.panicked) =>
        /\ ~acc.out.undefined
        /\ acc.out = AccumulateBuild(acc.build, SampleEvaluator(acc.sample), dag,
                         AlphaPowers(acc.alpha, acc.num_powers, EvalLanes), <<>>)

\* a batch ran on the buffer of a batch with other rows, whose slots held
\* other values, and an operation node read its operands
C28_Witness ==
    /\ phase = "accumulated"
    /\ acc.prev # 0 /\ acc.prev # acc.sample
    /\ ~acc.out.panicked
    /\ BufferBefore(acc.prev, dag.nodes) # acc.out.exprs
    /\ \E i \in 1 .. Len(dag.nodes) : dag.nodes[i].tag \in BinaryTags
    /\ acc.out.accumulator # PCZero(EvalLanes)

(***************************************************************************)
(* The rows a batch reads, lane by lane.                                   *)
(***************************************************************************)
\* Lane j of a packed view of base field columns.
LaneOfView(v, j) ==
    [local |-> [c \in 1 .. Len(v.local) |-> <<v.local[c][j]>>],
     next |-> [c \in 1 .. Len(v.next) |-> <<v.next[c][j]>>],
     has_next |-> v.has_next]

\* Lane j of a packed view of extension field columns.
LaneOfChallengeView(v, j) ==
    [local |-> [c \in 1 .. Len(v.local) |->
                   [k \in 1 .. D |-> <<v.local[c][k][j]>>]],
     next |-> [c \in 1 .. Len(v.next) |->
                   [k \in 1 .. D |-> <<v.next[c][k][j]>>]],
     has_next |-> v.has_next]

\* Lane j of a ProverConstraintEvaluator: the evaluator of one row.
LaneEvaluator(ev, j) ==
    LET lane(pcs) == [k \in 1 .. Len(pcs) |-> PCFromF(PCLane(pcs[k], j), 1)]
    IN  [width |-> 1,
         preprocessed |-> LaneOfView(ev.preprocessed, j),
         partitioned_main |->
             [k \in 1 .. Len(ev.partitioned_main) |->
                 LaneOfView(ev.partitioned_main[k], j)],
         after_challenge |->
             [k \in 1 .. Len(ev.after_challenge) |->
                 LaneOfChallengeView(ev.after_challenge[k], j)],
         challenges |-> [k \in 1 .. Len(ev.challenges) |-> lane(ev.challenges[k])],
         is_first_row |-> <<ev.is_first_row[j]>>,
         is_last_row |-> <<ev.is_last_row[j]>>,
         is_transition |-> <<ev.is_transition[j]>>,
         public_values |-> ev.public_values,
         exposed_values_after_challenge |->
             [k \in 1 .. Len(ev.exposed_values_after_challenge) |->
                 lane(ev.exposed_values_after_challenge[k])]]

\* The evaluator whose local row is row i of every matrix on the quotient
\* domain, whose selectors are those at i and whose next row, if the scan
\* asked for one, is row nxt.
RowPairEvaluator(inp, i, nxt) ==
    LET needs_next == ScanConstraints(inp).needs_next
        view(m, width) ==
            [local |-> [c \in 1 .. width |-> <<MatrixGet(m, i, c - 1)>>],
             next |-> IF needs_next
                      THEN [c \in 1 .. width |-> <<MatrixGet(m, nxt, c - 1)>>]
                      ELSE <<>>,
             has_next |-> needs_next]
        ext(m) ==
            [local |-> [c \in 1 .. (m.width \div D) |->
                           [k \in 1 .. D |-> <<MatrixGet(m, i, (c - 1) * D + k - 1)>>]],
             next |-> IF needs_next
                      THEN [c \in 1 .. (m.width \div D) |->
                               [k \in 1 .. D |->
                                   <<MatrixGet(m, nxt, (c - 1) * D + k - 1)>>]]
                      ELSE <<>>,
             has_next |-> needs_next]
        lane1(pcs) == [k \in 1 .. Len(pcs) |-> PCFromF(PCLane(pcs[k], 1), 1)]
    IN  [width |-> 1,
         preprocessed |->
             view(inp.preprocessed.m,
                  IF inp.preprocessed.some THEN inp.preprocessed.m.width ELSE 0),
         partitioned_main |->
             [k \in 1 .. Len(inp.partitioned_main) |->
                 view(inp.partitioned_main[k], inp.partitioned_main[k].width)],
         after_challenge |->
             [k \in 1 .. Len(inp.after_challenge) |-> ext(inp.after_challenge[k])],
         challenges |-> [k \in 1 .. Len(inp.challenges) |-> lane1(inp.challenges[k])],
         is_first_row |-> <<inp.sels.is_first_row[i + 1]>>,
         is_last_row |-> <<inp.sels.is_last_row[i + 1]>>,
         is_transition |-> <<inp.sels.is_transition[i + 1]>>,
         public_values |-> inp.public_values,
         exposed_values_after_challenge |->
             [k \in 1 .. Len(inp.exposed_values_after_challenge) |->
                 lane1(inp.exposed_values_after_challenge[k])]]

\* The row of the quotient domain after row r of chunk c: quotient_degree
\* further, and back at c after the last row of the chunk.
NextFlatIndex(inp, c, r) ==
    IF r = inp.trace_height - 1 THEN c ELSE c + (r + 1) * inp.quotient_degree

\* C24: for every chunk c and row r, the batch that holds the row reads, in
\* the row's lane, the local row and the selectors at c + r * quotient_degree
\* and the next row at (c + (r + 1) * quotient_degree) mod quotient_size,
\* which for the last row of the chunk is c; the stored value is the folded
\* constraints of that pair of rows times inv_zeroifier at the local index.
C24_StridedRows ==
    phase \in {"map", "scope", "done"} =>
        LET inp == QuotientInputs(qin)
        IN  \A c \in 0 .. inp.quotient_degree - 1 :
               \A r \in 0 .. inp.trace_height - 1 :
                  LET i == c + r * inp.quotient_degree
                      nxt == NextFlatIndex(inp, c, r)
                      row_idx == (r \div inp.WIDTH) * inp.WIDTH
                      ev == RowPairEvaluator(inp, i, nxt)
                  IN  /\ i < inp.quotient_size
                      /\ nxt = (c + (r + 1) * inp.quotient_degree)
                                  % inp.quotient_size
                      /\ RowIdxLocal(inp, c, row_idx)[r - row_idx + 1] = i
                      /\ RowIdxNext(inp, c, row_idx)[r - row_idx + 1] = nxt
                      /\ LaneEvaluator(BatchEvaluator(inp, c, row_idx),
                                       r - row_idx + 1) = ev
                      /\ c < Len(quotient_chunks) =>
                            quotient_chunks[c + 1][r + 1]
                              = EFMul(WeightedSum(ev, inp.constraints, inp.alpha, 1,
                                          Len(inp.constraints.constraint_idx)),
                                      EFFromBase(inp.sels.inv_zeroifier[i + 1]))

\* the second of two chunks of four rows is finished, computed from
\* constraints that read the next row: the next row of its last row is row 1
\* of the quotient domain
C24_Witness ==
    /\ phase = "done"
    /\ qin.log_trace_height = 2 /\ qin.log_quotient_degree = 1
    /\ ScanConstraints(QuotientInputs(qin)).needs_next
    /\ Len(quotient_chunks) = 2
    /\ NextFlatIndex(QuotientInputs(qin), 1, 3) = 1
    /\ quotient_chunks[2][4] # EFZero
    /\ quotient_chunks[2][4] # quotient_chunks[1][4]

(***************************************************************************)
(* The next buffers of the views.                                          *)
(***************************************************************************)
TraceEntries == {"Preprocessed", "Main", "Permutation"}

\* The view that eval_var reads for a variable of a trace entry.
TraceView(ev, var) ==
    CASE var.entry = "Preprocessed" -> ev.preprocessed
      [] var.entry = "Main" -> ev.partitioned_main[var.part_index + 1]
      [] OTHER -> ev.after_challenge[var.part_index + 1]

\* Some variable of a trace entry has a row offset above 0.
ReadsNextRow(nodes) ==
    \E i \in 1 .. Len(nodes) :
        /\ nodes[i].tag = "Variable"
        /\ nodes[i].var.entry \in TraceEntries
        /\ nodes[i].var.offset > 0

\* The row indices at which the fat rows of a chunk start.
BatchStarts(inp) ==
    { row_idx \in 0 .. inp.trace_height - 1 : row_idx % inp.WIDTH = 0 }

\* C25: the scan asks for the next buffers exactly when some trace variable
\* has an offset above 0; every view of every batch then has a next buffer
\* as wide as its local one, and otherwise none has; every read of offset 1
\* finds its column in the next buffer of its view, and no batch reads a value
\* that is not there.
C25_NextMaterialised ==
    /\ phase \notin {"panicked", "undefined"}
    /\ phase \in {"map", "scope", "done"} =>
        LET inp == QuotientInputs(qin)
            nodes == inp.constraints.nodes
            needs_next == ScanConstraints(inp).needs_next
        IN  /\ needs_next <=> ReadsNextRow(nodes)
            /\ \A c \in 0 .. inp.quotient_degree - 1 : \A row_idx \in BatchStarts(inp) :
                  LET ev == BatchEvaluator(inp, c, row_idx)
                      views == <<ev.preprocessed>> \o ev.partitioned_main
                                  \o ev.after_challenge
                  IN  /\ \A k \in 1 .. Len(views) :
                            /\ views[k].has_next = needs_next
                            /\ needs_next => Len(views[k].next) = Len(views[k].local)
                            /\ ~needs_next => views[k].next = <<>>
                      /\ \A i \in 1 .. Len(nodes) :
                            (/\ nodes[i].tag = "Variable"
                             /\ nodes[i].var.entry \in TraceEntries
                             /\ nodes[i].var.offset = 1) =>
                                ViewPairGet(TraceView(ev, nodes[i].var), 1,
                                            nodes[i].var.index).ok = "ok"

\* the call returned after batches of two rows read offset 1 of a permutation
\* column, the only variable with an offset; the main view got a next buffer
\* as well
C25_Witness ==
    /\ phase = "done"
    /\ qin.log_width = 1 /\ qin.log_trace_height = 2
    /\ \E i \in 1 .. Len(QuotientInputs(qin).constraints.nodes) :
          LET n == QuotientInputs(qin).constraints.nodes[i]
          IN  n.tag = "Variable" /\ n.var.entry = "Permutation" /\ n.var.offset = 1
    /\ \A i \in 1 .. Len(QuotientInputs(qin).constraints.nodes) :
          LET n == QuotientInputs(qin).constraints.nodes[i]
          IN  n.tag = "Variable" /\ n.var.entry = "Main" => n.var.offset = 0
    /\ BatchEvaluator(QuotientInputs(qin), 0, 2).partitioned_main[1].has_next
    /\ Len(quotient_chunks) = Pow2(qin.log_quotient_degree)

(***************************************************************************)
(* SpecChunks: parallelize_chunks on a slice of any length that is a       *)
(* multiple of chunk_size, on a pool of any size; every closure writes its *)
(* sub-slice chunk by chunk and notes the index it computed for each       *)
(* element from the idx it was given.                                      *)
(***************************************************************************)
MaxIters == 5
MaxChunkSize == 2
MaxPoolThreads == 4

\* An element of the slice: how often it was written and the index the
\* writing closure computed for it.
Unwritten == [writes |-> 0, idx |-> 0]

InitChunks ==
    /\ phase = "call"
    /\ IdleDag /\ IdleEval /\ IdlePacked /\ IdleFib /\ IdleProve /\ IdleSerde
    /\ \E iters \in 0 .. MaxIters, chunk_size \in 1 .. MaxChunkSize,
          n \in 0 .. MaxPoolThreads :
          qin = [len |-> iters * chunk_size, chunk_size |-> chunk_size,
                 num_threads |-> n]
    /\ chunk_idx = 0
    /\ column = <<>>
    /\ tasks = <<>>
    /\ quotient_chunks = <<>>

\* parallelize_chunks(v, chunk_size, f) up to the spawns.
SpawnChunks ==
    /\ phase = "call"
    /\ column' = [i \in 1 .. qin.len |-> Unwritten]
    /\ tasks' = parallelize_chunks(qin.len, qin.chunk_size, qin.num_threads)
    /\ phase' = "scope"
    /\ UNCHANGED <<qin, chunk_idx, quotient_chunks, notQuotientVars>>

\* f(thread_slice, idx) writes the next chunk_size elements of its slice.
ClosureStep ==
    /\ phase = "scope"
    /\ \E t \in 1 .. Len(tasks) :
          LET done == tasks[t].fat_row * qin.chunk_size
              first == tasks[t].slice_start + done
          IN  /\ done < tasks[t].len
              /\ column' = [i \in 1 .. Len(column) |->
                    IF i - 1 >= first /\ i - 1 < first + qin.chunk_size
                    THEN [writes |-> column[i].writes + 1,
                          idx |-> tasks[t].start_row_idx + done + (i - 1 - first)]
                    ELSE column[i]]
              /\ tasks' = [tasks EXCEPT ![t].fat_row = @ + 1]
    /\ UNCHANGED <<phase, qin, chunk_idx, quotient_chunks, notQuotientVars>>

\* rayon::scope returns: every closure has returned.
JoinChunks ==
    /\ phase = "scope"
    /\ \A t \in 1 .. Len(tasks) : tasks[t].fat_row * qin.chunk_size >= tasks[t].len
    /\ phase' = "done"
    /\ UNCHANGED <<quotientVars, notQuotientVars>>

NextChunks == SpawnChunks \/ ClosureStep \/ JoinChunks
SpecChunks == InitChunks /\ [][NextChunks]_vars

\* The indices of v that the sub-slice of a closure call holds.
SliceRange(t) == t.slice_start .. t.slice_start + t.len - 1

\* C26: on a pool of T >= 1 threads the sub-slices handed to the closure are
\* pairwise disjoint, cover the slice, have a length that is a positive
\* multiple of chunk_size and come with the index of their first element;
\* no element is written twice, and when the scope returns every element was
\* written once, under its own index.
C26_SlicesPartition ==
    (phase \in {"scope", "done"} /\ qin.num_threads >= 1) =>
        /\ \A t \in 1 .. Len(tasks) :
              /\ tasks[t].len > 0
              /\ tasks[t].len % qin.chunk_size = 0
              /\ tasks[t].start_row_idx = tasks[t].slice_start
              /\ SliceRange(tasks[t]) \subseteq 0 .. qin.len - 1
        /\ \A t \in 1 .. Len(tasks) : \A u \in 1 .. Len(tasks) :
              t # u => SliceRange(tasks[t]) \cap SliceRange(tasks[u]) = {}
        /\ UNION { SliceRange(tasks[t]) : t \in 1 .. Len(tasks) } = 0 .. qin.len - 1
        /\ Len(tasks) <= qin.num_threads
        /\ \A i \in 1 .. Len(column) : column[i].writes <= 1
        /\ phase = "done" =>
              \A i \in 1 .. Len(column) :
                  column[i].writes = 1 /\ column[i].idx = i - 1

\* five chunks of two elements went to three threads: slices of 4, 4 and 2
\* elements, all written
C26_Witness ==
    /\ phase = "done"
    /\ qin.len = 10 /\ qin.chunk_size = 2 /\ qin.num_threads = 3
    /\ Len(tasks) = 3
    /\ tasks[1].len = 4 /\ tasks[3].len = 2 /\ tasks[3].start_row_idx = 8
    /\ column[10].writes = 1

(***************************************************************************)
(* SpecViews: the views that partially_prove and eval_and_commit_quotient  *)
(* hand on.  A matrix is known by where it came from; PCS commitments keep *)
(* the list of matrices they were made of.  The preprocessed view, the     *)
(* public values, the challenges and the exposed values are passed through *)
(* untouched and left out.                                                 *)
(***************************************************************************)
MaxViewAirs == 3
MaxCached == 2
MaxViewLog == 1
MaxViewDegree == 2

NoIdx == [some |-> FALSE, v |-> 0]
SomeIdx(k) == [some |-> TRUE, v |-> k]

\* A trace matrix: of AIR `air` (0-based), or matrix `part` of a commitment
\* shared by the AIRs (air = -1).
MatrixId(kind, air, part) == [kind |-> kind, air |-> air, part |-> part]
NoMatrix == MatrixId("none", -1, -1)

\* The AIRs of a proof: an AIR has a common main or cached mains; the height
\* of its first cached trace matters when it has no common main.
ViewAirShapes ==
    { a \in [has_perm : BOOLEAN, has_common_main : BOOLEAN,
             num_cached : 0 .. MaxCached, cached_log_height : 0 .. MaxViewLog,
             quotient_degree : 1 .. MaxViewDegree] :
        /\ a.has_common_main \/ a.num_cached >= 1
        /\ a.has_common_main => a.cached_log_height = 0 }

\* phase_data.after_challenge_trace_per_air: Some(trace) or None per AIR.
AfterChallengeTracePerAir(shapes) ==
    [i \in 1 .. Len(shapes) |-> shapes[i].has_perm]

\* The map over zip_eq(after_challenge_trace_per_air, exposed_values_per_air)
\* with the counter perm_matrix_idx, over the first n AIRs.
RECURSIVE PermViewsByAirIndex(_, _)
PermViewsByAirIndex(traces, n) ==
    IF n = 0 THEN [perm_matrix_idx |-> 0, views |-> <<>>]
    ELSE LET prev == PermViewsByAirIndex(traces, n - 1)
         IN  [perm_matrix_idx |-> n,
              views |-> Append(prev.views,
                               [inner |-> IF traces[n] THEN SomeIdx(n - 1)
                                          ELSE NoIdx])]

RECURSIVE PermViews(_, _)
PermViews(traces, n) ==
    IF n = 0 THEN [perm_matrix_idx |-> 0, views |-> <<>>]
    ELSE LET prev == PermViews(traces, n - 1)
         IN  IF traces[n]
             THEN [perm_matrix_idx |-> prev.perm_matrix_idx + 1,
                   views |-> Append(prev.views,
                                    [inner |-> SomeIdx(prev.perm_matrix_idx)])]
             ELSE [perm_matrix_idx |-> prev.perm_matrix_idx,
                   views |-> Append(prev.views, [inner |-> NoIdx])]

\* perm_trace_per_air.into_iter().flat_map(..).collect(): the traces that
\* exist, among the first n AIRs, in AIR order.
RECURSIVE FlattenedTraces(_, _)
FlattenedTraces(perm_trace_per_air, n) ==
    IF n = 0 THEN <<>>
    ELSE FlattenedTraces(perm_trace_per_air, n - 1)
            \o (IF perm_trace_per_air[n]
                THEN << MatrixId("after_challenge", n - 1, 0) >> ELSE <<>>)

\* CpuDevice::partially_prove from the result of RapPhaseSeq::partially_prove
\* on: phase_data says whether it returned data.
PartiallyProveViews(phase_data, traces) ==
    LET num_airs == Len(traces)
        perm_trace_per_air ==
            IF phase_data THEN traces ELSE [i \in 1 .. num_airs |-> FALSE]
        flattened_traces == FlattenedTraces(perm_trace_per_air, num_airs)
    IN  [committed_pcs_data_per_phase |->
             IF flattened_traces # <<>> THEN << [data |-> flattened_traces] >>
             ELSE <<>>,
         rap_views_per_phase |->
             IF phase_data THEN << PermViews(traces, num_airs).views >> ELSE <<>>]

\* pcs.get_evaluations_on_domain(data, idx, domain): matrix idx of the
\* commitment, extended to the domain.
get_evaluations_on_domain(data, idx, domain) ==
    [matrix |-> IF idx + 1 \in 1 .. Len(data) THEN data[idx + 1] ELSE NoMatrix,
     domain |-> domain]

\* cached_views_per_air[i]: every cached main is its own commitment of one
\* matrix.
CachedViews(i, shape) ==
    [j \in 1 .. shape.num_cached |->
        [data |-> << MatrixId("cached", i - 1, j - 1) >>, matrix_idx |-> 0,
         log_height |-> shape.cached_log_height]]

\* per_phase of AIR i: the zip of the phase commitments with the phase views,
\* trailing None popped.
PerPhase(after, i, quotient_domain) ==
    LET n == Min(Len(after.committed_pcs_data_per_phase),
                 Len(after.rap_views_per_phase))
        found == [p \in 1 .. n |->
                    LET rap_views == after.rap_views_per_phase[p]
                    IN  IF i \in 1 .. Len(rap_views) /\ rap_views[i].inner.some
                        THEN get_evaluations_on_domain(
                                 after.committed_pcs_data_per_phase[p].data,
                                 rap_views[i].inner.v, quotient_domain)
                        ELSE [matrix |-> NoMatrix, domain |-> quotient_domain]]
        last == IF \E p \in 1 .. n : found[p].matrix # NoMatrix
                THEN CHOOSE p \in 1 .. n :
                        /\ found[p].matrix # NoMatrix
                        /\ \A q \in p + 1 .. n : found[q].matrix = NoMatrix
                ELSE 0
    IN  SubSeq(found, 1, last)

\* One AIR of the map with a counter that never advances.
ExtendedViewFirstCommonMain(shape, i, common, after, common_main_idx) ==
    LET cached_views == CachedViews(i, shape)
        log_trace_height ==
            IF shape.has_common_main THEN common.log_trace_heights[1]
            ELSE cached_views[1].log_height
        quotient_domain == [log_trace_height |-> log_trace_height,
                            quotient_degree |-> shape.quotient_degree]
    IN  [log_trace_height |-> log_trace_height,
         partitioned_main |->
             [j \in 1 .. Len(cached_views) |->
                 get_evaluations_on_domain(cached_views[j].data,
                     cached_views[j].matrix_idx, quotient_domain)]
             \o (IF shape.has_common_main
                 THEN << get_evaluations_on_domain(common.data, 0,
                                                   quotient_domain) >>
                 ELSE <<>>),
         per_phase |-> PerPhase(after, i, quotient_domain)]

\* One AIR of the map of eval_and_commit_quotient: the RapView of AIR i
\* (1-based) when the counter stands at common_main_idx.
ExtendedView(shape, i, common, after, common_main_idx) ==
    LET cached_views == CachedViews(i, shape)
        log_trace_height ==
            IF shape.has_common_main
            THEN common.log_trace_heights[common_main_idx + 1]
            ELSE cached_views[1].log_height
        quotient_domain == [log_trace_height |-> log_trace_height,
                            quotient_degree |-> shape.quotient_degree]
    IN  [log_trace_height |-> log_trace_height,
         partitioned_main |->
             [j \in 1 .. Len(cached_views) |->
                 get_evaluations_on_domain(cached_views[j].data,
                     cached_views[j].matrix_idx, quotient_domain)]
             \o (IF shape.has_common_main
                 THEN << get_evaluations_on_domain(common.data, common_main_idx,
                                                   quotient_domain) >>
                 ELSE <<>>),
         per_phase |-> PerPhase(after, i, quotient_domain)]

\* The map over izip!(pk_views, cached_views_per_air, public_values) for the
\* first n AIRs, with the counter common_main_idx.
RECURSIVE ExtendedViews(_, _, _, _)
ExtendedViews(shapes, common, after, n) ==
    IF n = 0 THEN [common_main_idx |-> 0, views |-> <<>>]
    ELSE LET prev == ExtendedViews(shapes, common, after, n - 1)
         IN  [common_main_idx |->
                  IF shapes[n].has_common_main THEN prev.common_main_idx + 1
                  ELSE prev.common_main_idx,
              views |-> Append(prev.views,
                               ExtendedView(shapes[n], n, common, after,
                                            prev.common_main_idx))]

\* The number of AIRs among the first n that have a common main.
NumCommonMain(shapes, n) ==
    Cardinality({ i \in 1 .. n : shapes[i].has_common_main })

InitViews ==
    /\ phase = "prove"
    /\ IdleDag /\ IdleEval /\ IdlePacked /\ IdleQuotient /\ IdleFib /\ IdleSerde
    /\ events = <<>> /\ quotient_data = <<>> /\ pcs_commits = <<>>
    /\ quotient_pcs = <<>>
    /\ has_phase \in BOOLEAN
    /\ air_idx = 0
    /\ \E n \in 1 .. MaxViewAirs :
          /\ airs \in [1 .. n -> ViewAirShapes]
          /\ has_phase \/ \A i \in 1 .. n : ~airs[i].has_perm
          /\ \E hs \in [1 .. NumCommonMain(airs, n) -> 0 .. MaxViewLog] :
                common_main_pcs_data =
                    [log_trace_heights |-> hs,
                     data |-> [k \in 1 .. Len(hs) |->
                                  MatrixId("common_main", -1, k - 1)]]
    /\ prover_data_after = <<>>
    /\ extended_views = <<>>

\* CpuDevice::partially_prove.
PartiallyProveStep ==
    /\ phase = "prove"
    /\ prover_data_after' =
           PartiallyProveViews(has_phase, AfterChallengeTracePerAir(airs))
    /\ phase' = "partially_proved"
    /\ UNCHANGED <<airs, has_phase, events, air_idx, quotient_data, pcs_commits,
                   quotient_pcs, common_main_pcs_data, extended_views>>
    /\ UNCHANGED notProveVars

\* CpuDevice::eval_and_commit_quotient up to the extended views.
ExtendViewsStep ==
    /\ phase = "partially_proved"
    /\ extended_views' =
           ExtendedViews(airs, common_main_pcs_data, prover_data_after,
                         Len(airs)).views
    /\ phase' = "extended"
    /\ UNCHANGED <<airs, has_phase, events, air_idx, quotient_data, pcs_commits,
                   quotient_pcs, common_main_pcs_data, prover_data_after>>
    /\ UNCHANGED notProveVars

NextViews == PartiallyProveStep \/ ExtendViewsStep
SpecViews == InitViews /\ [][NextViews]_vars

\* The number of AIRs before AIR i (1-based) that have an after-challenge
\* trace.
PermsBefore(i) == Cardinality({ k \in 1 .. i - 1 : airs[k].has_perm })

\* C29: the AIRs with an after-challenge trace get the matrix indices 0, 1,
\* 2, ... in AIR order and the others none; the index of an AIR is the
\* position of its own trace in the list committed for the phase, which is
\* where eval_and_commit_quotient fetches its extended matrix; a phase
\* commitment exists exactly when some AIR has an after-challenge trace.
C29_PermMatrixIdx ==
    phase \in {"partially_proved", "extended"} =>
        LET committed == prover_data_after.committed_pcs_data_per_phase
            rap_views == prover_data_after.rap_views_per_phase
        IN  /\ Len(committed) = IF \E i \in 1 .. Len(airs) : airs[i].has_perm
                                THEN 1 ELSE 0
            /\ Len(rap_views) = IF has_phase THEN 1 ELSE 0
            /\ has_phase =>
                  /\ Len(rap_views[1]) = Len(airs)
                  /\ \A i \in 1 .. Len(airs) :
                        IF airs[i].has_perm
                        THEN /\ rap_views[1][i].inner = SomeIdx(PermsBefore(i))
                             /\ committed[1].data[PermsBefore(i) + 1]
                                   = MatrixId("after_challenge", i - 1, 0)
                        ELSE rap_views[1][i].inner = NoIdx
            /\ phase = "extended" =>
                  \A i \in 1 .. Len(airs) :
                      IF airs[i].has_perm
                      THEN /\ Len(extended_views[i].per_phase) = 1
                           /\ extended_views[i].per_phase[1].matrix
                                 = MatrixId("after_challenge", i - 1, 0)
                      ELSE extended_views[i].per_phase = <<>>

\* of three AIRs the first has no after-challenge trace: the second and third
\* got the indices 0 and 1
C29_Witness ==
    /\ phase = "extended"
    /\ Len(airs) = 3
    /\ ~airs[1].has_perm /\ airs[2].has_perm /\ airs[3].has_perm
    /\ prover_data_after.rap_views_per_phase[1][3].inner = SomeIdx(1)
    /\ Len(prover_data_after.committed_pcs_data_per_phase[1].data) = 2

\* C30: an AIR with a common main takes its log trace height and its
\* common-main view from index k of the common-main commitment, k the number
\* of AIRs before it that have a common main; the view is the last entry of
\* partitioned_main, after the cached views in order; an AIR without a common
\* main takes the height of its first cached trace and has only its cached
\* views.
C30_CommonMainIdx ==
    phase = "extended" =>
        /\ Len(extended_views) = Len(airs)
        /\ \A i \in 1 .. Len(airs) :
              LET k == NumCommonMain(airs, i - 1)
                  v == extended_views[i]
                  nc == airs[i].num_cached
              IN  /\ \A j \in 1 .. nc :
                        v.partitioned_main[j].matrix
                          = MatrixId("cached", i - 1, j - 1)
                  /\ IF airs[i].has_common_main
                     THEN /\ v.log_trace_height
                                = common_main_pcs_data.log_trace_heights[k + 1]
                          /\ Len(v.partitioned_main) = nc + 1
                          /\ v.partitioned_main[nc + 1].matrix
                                = MatrixId("common_main", -1, k)
                     ELSE /\ v.log_trace_height = airs[i].cached_log_height
                          /\ Len(v.partitioned_main) = nc
                  /\ \A j \in 1 .. Len(v.partitioned_main) :
                        v.partitioned_main[j].domain
                          = [log_trace_height |-> v.log_trace_height,
                             quotient_degree |-> airs[i].quotient_degree]

\* an AIR with only cached mains stands between two AIRs with a common main
\* of different heights; the third AIR reads index 1 of the commitment
C30_Witness ==
    /\ phase = "extended"
    /\ Len(airs) = 3
    /\ airs[1].has_common_main /\ ~airs[2].has_common_main
    /\ airs[3].has_common_main /\ airs[3].num_cached = 2
    /\ common_main_pcs_data.log_trace_heights = <<0, 1>>
    /\ extended_views[3].log_trace_height = 1
    /\ extended_views[3].partitioned_main[3].matrix = MatrixId("common_main", -1, 1)
    /\ extended_views[2].log_trace_height = 1

====
